---------------------------- MODULE Spec2Model ----------------------------
(***************************************************************************)
(* A model of the building-risk pipeline of ml-models/:                    *)
(*   risk_probability_model.py   RiskProbabilityModel                      *)
(*   anomaly_detection_model.py  AnomalyDetectionModel                     *)
(*   failure_prediction_model.py FailurePredictionModel                    *)
(*   api_integration.py          PredictionAPI and the /api/ml/risk routes *)
(*   train_risk_probability.py   the risk training pipeline                *)
(*                                                                         *)
(* Numbers.  Python floats are modelled exactly where the code only adds,  *)
(* multiplies, divides and compares them: a value is a rational            *)
(* [num, den] with den > 0.  Probabilities that go through np.exp are kept *)
(* in fixed point, Scale units to 1.0.                                     *)
(***************************************************************************)
EXTENDS Integers, Sequences, FiniteSets, TLC

VARIABLES
    rm,           \* the RiskProbabilityModel object (or the failed construction)
    rmCall,       \* the last calculate_building_risk call: arguments and result
    eng,          \* the engine instance at hand (anomaly or failure prediction)
    files,        \* the model file and the scaler file the engine saves to
    saved,        \* history: the estimator and scaler of the instance that saved last
    engOut,       \* the outcome of the engine call that has just returned
    disk,         \* the models directory the API and the pipeline read
    api,          \* the PredictionAPI object of the service
    campus,       \* the data set: one row per building
    resp,         \* the response of the handler or pipeline run that just ended
    issues_df,    \* the issue table handed to the statistical detectors
    detOut,       \* the outcome of the detector call that has just returned
    tasks,        \* the detector calls made for single buildings of the table
    survey,       \* the building_risks list the rollups are called with
    repOut,       \* the outcome of the rollup call that has just returned
    fdata,        \* a building's row and issues, as the loader returned them
    featOut       \* the outcome of the feature engineering call that just returned

riskVars == <<rm, rmCall>>
engVars == <<eng, files, saved, engOut>>
apiVars == <<disk, api, campus, resp>>
detVars == <<issues_df, detOut, tasks>>
repVars == <<survey, repOut>>
featVars == <<fdata, featOut>>
vars == <<rm, rmCall, eng, files, saved, engOut, disk, api, campus, resp,
          issues_df, detOut, tasks, survey, repOut, fdata, featOut>>
\* what an operation of one component leaves alone
notRisk == <<engVars, apiVars, detVars, repVars, featVars>>
notEngine == <<riskVars, apiVars, detVars, repVars, featVars>>
notApi == <<riskVars, engVars, detVars, repVars, featVars>>
notDetect == <<riskVars, engVars, apiVars, repVars, featVars>>
notReport == <<riskVars, engVars, apiVars, detVars, featVars>>
notFeatures == <<riskVars, engVars, apiVars, detVars, repVars>>

----------------------------------------------------------------------------
(* Rational arithmetic                                                     *)

Rat(n, d) == [num |-> n, den |-> d]
RatInt(n) == Rat(n, 1)
RatAdd(a, b) == Rat(a.num * b.den + b.num * a.den, a.den * b.den)
RatSub(a, b) == Rat(a.num * b.den - b.num * a.den, a.den * b.den)
RatMulInt(a, k) == Rat(a.num * k, a.den)
RatEq(a, b) == a.num * b.den = b.num * a.den
RatLe(a, b) == a.num * b.den <= b.num * a.den
RatLt(a, b) == a.num * b.den < b.num * a.den
\* floor of a rational with a positive denominator
RatFloor(a) == a.num \div a.den

RECURSIVE GCD(_, _)
GCD(a, b) == IF b = 0 THEN a ELSE GCD(b, a % b)

\* the same non-negative number in lowest terms
RatNorm(a) ==
    IF a.den = 0 THEN a
    ELSE Rat(a.num \div GCD(a.num, a.den), a.den \div GCD(a.num, a.den))

----------------------------------------------------------------------------
(* Bounds of the model                                                     *)

\* weights passed to the constructor are 0..MaxWeight weight units
MaxWeight == 3
\* component inputs are the grid -1/GridMax, 0, 1/GridMax, ..., 1 + 1/GridMax
GridMax == 4
\* recent_high_severity_issues ranges over 0..MaxCritical
MaxCritical == 1

\* fixed point: Scale units to 1.0
Scale == 10 * 10 * 10
\* terms of the series np.exp is evaluated with
ExpTerms == 4 * 4

RiskInputs == { (k * Scale) \div GridMax : k \in -1 .. GridMax + 1 }

----------------------------------------------------------------------------
(* RiskProbabilityModel                                                    *)

risk_threshold_critical == 800
risk_threshold_high == 600
risk_threshold_medium == 400

Levels == {"LOW", "MEDIUM", "HIGH", "CRITICAL"}

NoRiskModel ==
    [status |-> "none", failure_weight |-> RatInt(0),
     anomaly_weight |-> RatInt(0), recency_weight |-> RatInt(0)]

NoRiskResult ==
    [risk_probability |-> 0, risk_level |-> "LOW",
     action |-> "ROUTINE MAINTENANCE",
     failure_component |-> 0, anomaly_component |-> 0,
     recency_component |-> 0, composite_score |-> RatInt(0),
     recent_critical_issues |-> 0]

\* calls, previous and model_before are history: how many times the call
\* was made with these arguments, what the call before returned, and the
\* model object as it was before the first of them
NoRiskCall ==
    [called |-> FALSE, failure_probability |-> 0, anomaly_probability |-> 0,
     issue_frequency_score |-> 0,
     calls |-> 0, previous |-> NoRiskResult, model_before |-> NoRiskModel,
     result |-> [risk_probability |-> 0, risk_level |-> "LOW",
                 action |-> "ROUTINE MAINTENANCE",
                 failure_component |-> 0, anomaly_component |-> 0,
                 recency_component |-> 0, composite_score |-> RatInt(0),
                 recent_critical_issues |-> 0]]

\* total = failure_weight + anomaly_weight + recency_weight
WeightTotal(wf, wa, wr) == wf + wa + wr

\* __init__: a float division by a zero total raises ZeroDivisionError and
\* no object is obtained
RiskModelInit(wf, wa, wr) ==
    LET total == WeightTotal(wf, wa, wr) IN
    IF total = 0
    THEN [NoRiskModel EXCEPT !.status = "ZeroDivisionError"]
    ELSE [status |-> "ok",
          failure_weight |-> Rat(wf, total),
          anomaly_weight |-> Rat(wa, total),
          recency_weight |-> Rat(wr, total)]

Min(a, b) == IF a <= b THEN a ELSE b
Max(a, b) == IF a >= b THEN a ELSE b

\* max(0.0, min(1.0, x)), in Scale units
ClampNoUpper(x) == Max(0, x)
Clamp01(x) == Max(0, Min(Scale, x))

\* np.exp(z / Scale) in Scale units: the series 1 + z + z^2/2! + ... by
\* Horner's rule, ExpTerms terms, for z >= 0, and its reciprocal for
\* z < 0, so that rounding leaves the function non-decreasing as np.exp is
RECURSIVE ExpHorner(_, _)
ExpHorner(z, k) ==
    IF k > ExpTerms THEN Scale
    ELSE Scale + (z * ExpHorner(z, k + 1)) \div (k * Scale)

Exp(z) ==
    IF z >= 0 THEN ExpHorner(z, 1) ELSE (Scale * Scale) \div ExpHorner(-z, 1)

\* 1.0 / (1.0 + np.exp(-5 * (composite_risk - 0.5)))
SigmoidFalling(c) == (Scale * Scale) \div (Scale + Exp(5 * (c - Scale \div 2)))
Sigmoid(c) == (Scale * Scale) \div (Scale + Exp(-5 * (c - Scale \div 2)))

RiskLevel(p) ==
    IF p >= risk_threshold_critical THEN "CRITICAL"
    ELSE IF p >= risk_threshold_high THEN "HIGH"
    ELSE IF p >= risk_threshold_medium THEN "MEDIUM"
    ELSE "LOW"

RiskAction(level) ==
    CASE level = "CRITICAL" -> "IMMEDIATE INTERVENTION REQUIRED"
      [] level = "HIGH" -> "URGENT MAINTENANCE REQUIRED"
      [] level = "MEDIUM" -> "SCHEDULE MAINTENANCE"
      [] OTHER -> "ROUTINE MAINTENANCE"

\* arguments: the model, failure_probability, anomaly_probability,
\* issue_frequency_score, recent_high_severity_issues
calculate_building_risk(m, fp, ap, ifs, recent_high_severity_issues) ==
    LET failure_prob == Clamp01(fp)
        anomaly_prob == Clamp01(ap)
        freq_score == Clamp01(ifs)
        composite_risk ==
            RatAdd(RatAdd(RatMulInt(m.failure_weight, failure_prob),
                          RatMulInt(m.anomaly_weight, anomaly_prob)),
                   RatMulInt(m.recency_weight, freq_score))
        risk_probability == Sigmoid(RatFloor(composite_risk))
        risk_level == RiskLevel(risk_probability)
    IN  [risk_probability |-> risk_probability,
         risk_level |-> risk_level,
         action |-> RiskAction(risk_level),
         failure_component |-> failure_prob,
         anomaly_component |-> anomaly_prob,
         recency_component |-> freq_score,
         composite_score |-> composite_risk,
         recent_critical_issues |-> recent_high_severity_issues]

\* the model object after a calculate_building_risk call: the method
\* assigns no attribute of self
ModelAfterRiskSwapped(m) ==
    [m EXCEPT !.failure_weight = m.anomaly_weight,
              !.anomaly_weight = m.failure_weight]
ModelAfterRisk(m) == m

\* RiskProbabilityModel(failure_weight, anomaly_weight, recency_weight)
Construct(wf, wa, wr) ==
    /\ rm.status = "none"
    /\ rm' = RiskModelInit(wf, wa, wr)
    /\ rmCall' = NoRiskCall
    /\ UNCHANGED notRisk

\* risk_model.calculate_building_risk(...) on a constructed model
CalculateBuildingRisk(f, a, r, crit) ==
    /\ rm.status = "ok"
    /\ ~rmCall.called
    /\ rmCall' = [called |-> TRUE, failure_probability |-> f,
                  anomaly_probability |-> a, issue_frequency_score |-> r,
                  calls |-> 1, previous |-> NoRiskResult, model_before |-> rm,
                  result |-> calculate_building_risk(rm, f, a, r, crit)]
    /\ rm' = ModelAfterRisk(rm)
    /\ UNCHANGED notRisk

\* the same call once more, with identical arguments
CalculateAgain ==
    /\ rm.status = "ok"
    /\ rmCall.called
    /\ rmCall.calls = 1
    /\ rmCall' = [rmCall EXCEPT
                     !.calls = 2,
                     !.previous = rmCall.result,
                     !.result = calculate_building_risk(
                                    rm, rmCall.failure_probability,
                                    rmCall.anomaly_probability,
                                    rmCall.issue_frequency_score,
                                    rmCall.result.recent_critical_issues)]
    /\ rm' = ModelAfterRisk(rm)
    /\ UNCHANGED notRisk

\* the call made once more with one of the three inputs raised and the
\* others as they were
CalculateRaised(input, x) ==
    /\ rm.status = "ok"
    /\ rmCall.called
    /\ rmCall.calls = 1
    /\ x > rmCall[input]
    /\ LET raised == [rmCall EXCEPT ![input] = x] IN
       rmCall' = [raised EXCEPT
                     !.calls = 2,
                     !.previous = rmCall.result,
                     !.result = calculate_building_risk(
                                    rm, raised.failure_probability,
                                    raised.anomaly_probability,
                                    raised.issue_frequency_score,
                                    rmCall.result.recent_critical_issues)]
    /\ rm' = ModelAfterRisk(rm)
    /\ UNCHANGED notRisk

\* the caller takes the returned dictionary; the model object stays
ReturnRisk ==
    /\ rmCall.called
    /\ rmCall' = NoRiskCall
    /\ UNCHANGED <<rm, notRisk>>

----------------------------------------------------------------------------
(* The estimators and the scaler of scikit-learn, as the engines use them. *)
(* One numeric feature per sample.  A fitted object is its learned         *)
(* parameters; fit, transform and the scoring calls are deterministic      *)
(* functions of them, and a call on an object that was never fitted raises *)
(* NotFittedError.                                                         *)

\* a detection batch has 1..MaxBatch samples with feature values 0..MaxFeature
MaxBatch == 3
MaxFeature == 2

Batches == UNION { [1 .. n -> 0 .. MaxFeature] : n \in 1 .. MaxBatch }

\* the days since the last issue of the rows of a batch of n rows: the same
\* number for every row, or rising from row to row, or no such column
DayValues == {-3, 0, 3, 50, 61, 70, 100}
RisingDays == <<-3, 3, 61, 85, 100>>
DaysColumns(n) ==
    { [column |-> FALSE, values |-> <<>>],
      [column |-> TRUE, values |-> [i \in 1 .. n |-> RisingDays[i]]] }
    \cup { [column |-> TRUE, values |-> [i \in 1 .. n |-> d]] : d \in DayValues }

\* the training sets a train call draws from: features X and, for the
\* failure classifier, the failure_in_window labels y
TrainSets ==
    { [X |-> <<0, 2>>, y |-> <<0, 1>>],
      [X |-> <<1, 1, 4>>, y |-> <<0, 0, 1>>],
      [X |-> <<3>>, y |-> <<1>>] }

RECURSIVE SeqSum(_)
SeqSum(q) == IF q = <<>> THEN 0 ELSE Head(q) + SeqSum(Tail(q))

RECURSIVE SeqMin(_)
SeqMin(q) == IF Len(q) = 1 THEN q[1] ELSE Min(q[1], SeqMin(Tail(q)))

RECURSIVE SeqMax(_)
SeqMax(q) == IF Len(q) = 1 THEN q[1] ELSE Max(q[1], SeqMax(Tail(q)))

Abs(x) == IF x < 0 THEN -x ELSE x

\* StandardScaler()
NewScaler == [fitted |-> FALSE, mean |-> 0]
\* StandardScaler.fit: the learned mean of the training feature
ScalerFit(X) == [fitted |-> TRUE, mean |-> SeqSum(X) \div Len(X)]
\* StandardScaler.transform
ScalerTransform(sc, X) == [i \in 1 .. Len(X) |-> X[i] - sc.mean]

\* self.model = None / self.classifier = None
NoEstimator ==
    [kind |-> "None", fitted |-> FALSE, center |-> 0, radius |-> 0, prior |-> 0]
\* IsolationForest(...), OneClassSVM(...), XGBClassifier(...), ...
NewEstimator(kind) == [NoEstimator EXCEPT !.kind = kind]

\* estimator.fit on the scaled training batch (and the labels)
EstimatorFit(est, Xs, y) ==
    LET c == (SeqMin(Xs) + SeqMax(Xs)) \div 2 IN
    [est EXCEPT !.fitted = TRUE,
                !.center = c,
                !.radius = SeqMax(Xs) - c,
                !.prior = (Scale * SeqSum(y)) \div Len(y)]

\* score_samples of one scaled sample: lower = more anomalous
ScoreSample(est, x) ==
    IF est.kind = "OneClassSVM"
    THEN -((x - est.center) * (x - est.center))
    ELSE -Abs(x - est.center)

\* predict of one scaled sample: -1 for anomaly, 1 for normal
PredictSample(est, x) ==
    IF Abs(x - est.center) > est.radius THEN -1 ELSE 1

\* predict_proba(...)[:, 1] of one scaled sample, in Scale units
ProbaSample(est, x) == Clamp01(est.prior + (Scale \div 8) * (x - est.center))

----------------------------------------------------------------------------
(* AnomalyDetectionModel and FailurePredictionModel                        *)

AnomalyAlgorithms == {"isolation_forest", "one_class_svm"}
FailureModelTypes == {"xgboost", "random_forest", "gradient_boosting"}
Selectors == AnomalyAlgorithms \cup FailureModelTypes \cup {"bogus"}

EstimatorKind(selector) ==
    CASE selector = "isolation_forest" -> "IsolationForest"
      [] selector = "one_class_svm" -> "OneClassSVM"
      [] selector = "xgboost" -> "XGBClassifier"
      [] selector = "random_forest" -> "RandomForestClassifier"
      [] selector = "gradient_boosting" -> "GradientBoostingClassifier"
      [] OTHER -> "None"

\* no instance yet
NoEngine ==
    [status |-> "none", class |-> "none", selector |-> "none",
     model |-> NoEstimator, scaler |-> NewScaler, feature_names |-> <<>>,
     origin |-> "none", ready |-> FALSE]

\* AnomalyDetectionModel.__init__ / FailurePredictionModel.__init__ with
\* _initialize_model: a selector outside the class's set raises ValueError.
\* origin and ready are history: what last set the estimator state of the
\* instance, and whether it was ever trained or successfully loaded.
EngineInitDefaulting(class, selector) ==
    [status |-> "ok", class |-> class, selector |-> selector,
     model |-> NewEstimator(EstimatorKind(selector)),
     scaler |-> NewScaler, feature_names |-> <<>>,
     origin |-> "construct", ready |-> FALSE]
EngineInit(class, selector) ==
    LET valid == IF class = "anomaly" THEN AnomalyAlgorithms
                 ELSE FailureModelTypes
    IN  IF selector \in valid
        THEN [status |-> "ok", class |-> class, selector |-> selector,
              model |-> NewEstimator(EstimatorKind(selector)),
              scaler |-> NewScaler, feature_names |-> <<>>,
              origin |-> "construct", ready |-> FALSE]
        ELSE [NoEngine EXCEPT !.status = "ValueError", !.class = class,
                              !.selector = selector]

NoFiles ==
    [model |-> [present |-> FALSE, obj |-> NoEstimator],
     scaler |-> [present |-> FALSE, obj |-> NewScaler]]

NoSaved == [valid |-> FALSE, model |-> NoEstimator, scaler |-> NewScaler]

NoOut ==
    [op |-> "none", status |-> "none", error |-> "none", X |-> <<>>,
     predictions |-> <<>>, scores |-> <<>>, probabilities |-> <<>>,
     days_since_last |-> <<>>, records |-> <<>>]

Raised(op, X, error) ==
    [NoOut EXCEPT !.op = op, !.status = "error", !.error = error, !.X = X]

\* train: scaler.fit_transform, then the estimator's fit; the anomaly
\* engine also records the columns of X
EngineTrain(e, D) ==
    LET sc == ScalerFit(D.X) IN
    [e EXCEPT !.scaler = sc,
              !.feature_names = IF e.class = "anomaly" THEN <<"feature">> ELSE @,
              !.model = EstimatorFit(e.model, ScalerTransform(sc, D.X), D.y),
              !.origin = "train", !.ready = TRUE]

\* the normalisation of detect_anomalies: scores to 0-1 probabilities
AnomalyProbAlwaysDivide(scores) ==
    LET min_score == SeqMin(scores)
        max_score == SeqMax(scores)
    IN  [i \in 1 .. Len(scores) |->
            RatSub(RatInt(1), Rat(scores[i] - min_score, max_score - min_score + 1))]
AnomalyProb(scores) ==
    LET min_score == SeqMin(scores)
        max_score == SeqMax(scores)
    IN  IF max_score - min_score > 0
        THEN [i \in 1 .. Len(scores) |->
                RatNorm(RatSub(RatInt(1),
                               Rat(scores[i] - min_score, max_score - min_score)))]
        ELSE [i \in 1 .. Len(scores) |-> RatInt(0)]

\* AnomalyDetectionModel.detect_anomalies
detect_anomalies(e, X) ==
    IF e.model.kind = "None"
    THEN Raised("detect_anomalies", X, "Model not trained yet")
    ELSE IF ~e.scaler.fitted \/ ~e.model.fitted
    THEN Raised("detect_anomalies", X, "NotFittedError")
    ELSE LET X_scaled == ScalerTransform(e.scaler, X)
             anomaly_scores ==
                 [i \in 1 .. Len(X) |-> ScoreSample(e.model, X_scaled[i])]
         IN  [NoOut EXCEPT
                 !.op = "detect_anomalies", !.status = "ok", !.X = X,
                 !.predictions =
                     [i \in 1 .. Len(X) |-> PredictSample(e.model, X_scaled[i])],
                 !.scores = anomaly_scores,
                 !.probabilities = AnomalyProb(anomaly_scores)]

\* FailurePredictionModel.predict_failure_risk
predict_failure_risk(e, X) ==
    IF ~e.scaler.fitted \/ ~e.model.fitted
    THEN Raised("predict_failure_risk", X, "NotFittedError")
    ELSE LET X_scaled == ScalerTransform(e.scaler, X)
             probabilities ==
                 [i \in 1 .. Len(X) |-> ProbaSample(e.model, X_scaled[i])]
         IN  [NoOut EXCEPT
                 !.op = "predict_failure_risk", !.status = "ok", !.X = X,
                 !.predictions =
                     [i \in 1 .. Len(X) |->
                         IF probabilities[i] > Scale \div 2 THEN 1 ELSE 0],
                 !.probabilities = probabilities]

\* FailurePredictionModel._categorize_risk
categorize_risk(probability) ==
    IF probability >= 800 THEN "CRITICAL"
    ELSE IF probability >= 600 THEN "HIGH"
    ELSE IF probability >= 400 THEN "MEDIUM"
    ELSE "LOW"

\* int(x) of the quotient num / den, den > 0: the fraction is dropped
IntTrunc(num, den) == IF num >= 0 THEN num \div den ELSE -((-num) \div den)

\* the days_since_last_issue column of X: a row of a table without the
\* column reads as default_days_since_last
default_days_since_last == 999
NoDaysColumn == [column |-> FALSE, values |-> <<>>]
DaysColumn(values) == [column |-> TRUE, values |-> values]
DaysSinceLast(days, i) ==
    IF days.column THEN days.values[i] ELSE default_days_since_last

\* the estimated_days of predict_time_window
EstimatedDaysAnyProbability(prob, days_since_last) ==
    Min(IntTrunc(days_since_last, 1), 60)
EstimatedDays(prob, days_since_last) ==
    IF prob > 700 THEN Min(IntTrunc(5 * days_since_last, 10), 30)
    ELSE IF prob > 500 THEN Min(IntTrunc(7 * days_since_last, 10), 45)
    ELSE Min(IntTrunc(days_since_last, 1), 60)

\* FailurePredictionModel.predict_time_window; X is the feature of each row
\* that the classifier reads, days the days_since_last_issue column of the
\* rows, and every row's building has issues
predict_time_window(e, X, days) ==
    LET p == predict_failure_risk(e, X) IN
    IF p.status = "error"
    THEN [p EXCEPT !.op = "predict_time_window"]
    ELSE [p EXCEPT
            !.op = "predict_time_window",
            !.days_since_last = [i \in 1 .. Len(X) |-> DaysSinceLast(days, i)],
            !.records =
                [i \in 1 .. Len(X) |->
                    LET prob == p.probabilities[i]
                    IN  [failure_probability |-> prob,
                         failure_risk_level |-> categorize_risk(prob),
                         estimated_days_to_failure |->
                             EstimatedDays(prob, DaysSinceLast(days, i)),
                         confidence |-> Clamp01(Abs(prob - Scale \div 2) * 2)]]]

\* save_model: joblib.dump(self.model, ...), joblib.dump(self.scaler, ...)
SaveFilesModelOnly(e) ==
    [model |-> [present |-> TRUE, obj |-> e.model],
     scaler |-> [present |-> TRUE, obj |-> NewScaler]]
SaveFiles(e) ==
    [model |-> [present |-> TRUE, obj |-> e.model],
     scaler |-> [present |-> TRUE, obj |-> e.scaler]]

\* AnomalyDetectionModel.load_model: the model is assigned before the
\* scaler file is read, and a missing file raises out of joblib.load
AnomalyLoad(e, f) ==
    IF ~f.model.present THEN e
    ELSE IF ~f.scaler.present
    THEN [e EXCEPT !.model = f.model.obj, !.origin = "load_failed"]
    ELSE [e EXCEPT !.model = f.model.obj, !.scaler = f.scaler.obj,
                   !.origin = "load", !.ready = TRUE]

\* FailurePredictionModel.load_model: both files or nothing
FailureLoad(e, f) ==
    IF f.model.present /\ f.scaler.present
    THEN [e EXCEPT !.model = f.model.obj, !.scaler = f.scaler.obj,
                   !.origin = "load", !.ready = TRUE]
    ELSE e

----------------------------------------------------------------------------
(* The engine's operations                                                 *)

Idle == engOut.op = "none"

\* AnomalyDetectionModel(algorithm=...) / FailurePredictionModel(model_type=...):
\* a fresh instance of the class this process works with
EngConstruct(class, selector) ==
    /\ Idle
    /\ eng.class \in {"none", class}
    /\ eng' = EngineInit(class, selector)
    /\ UNCHANGED <<files, saved, engOut, notEngine>>

\* train(X) / train(X_train, y_train)
EngTrain(D) ==
    /\ Idle
    /\ eng.status = "ok"
    /\ eng' = EngineTrain(eng, D)
    /\ engOut' = [NoOut EXCEPT !.op = "train", !.status = "ok", !.X = D.X]
    /\ UNCHANGED <<files, saved, notEngine>>

\* detect_anomalies(X)
EngDetectAnomalies(X) ==
    /\ Idle
    /\ eng.status = "ok"
    /\ eng.class = "anomaly"
    /\ engOut' = detect_anomalies(eng, X)
    /\ UNCHANGED <<eng, files, saved, notEngine>>

\* predict_failure_risk(X)
EngPredictFailureRisk(X) ==
    /\ Idle
    /\ eng.status = "ok"
    /\ eng.class = "failure"
    /\ engOut' = predict_failure_risk(eng, X)
    /\ UNCHANGED <<eng, files, saved, notEngine>>

\* predict_time_window(X, issues_df, buildings_df)
EngPredictTimeWindow(X, days) ==
    /\ Idle
    /\ eng.status = "ok"
    /\ eng.class = "failure"
    /\ engOut' = predict_time_window(eng, X, days)
    /\ UNCHANGED <<eng, files, saved, notEngine>>

\* save_model()
EngSave ==
    /\ Idle
    /\ eng.status = "ok"
    /\ files' = SaveFiles(eng)
    /\ saved' = [valid |-> TRUE, model |-> eng.model, scaler |-> eng.scaler]
    /\ engOut' = [NoOut EXCEPT !.op = "save_model", !.status = "ok"]
    /\ UNCHANGED <<eng, notEngine>>

\* load_model()
EngLoad ==
    /\ Idle
    /\ eng.status = "ok"
    /\ IF eng.class = "anomaly"
       THEN /\ eng' = AnomalyLoad(eng, files)
            /\ engOut' =
                 IF files.model.present /\ files.scaler.present
                 THEN [NoOut EXCEPT !.op = "load_model", !.status = "ok"]
                 ELSE Raised("load_model", <<>>, "FileNotFoundError")
       ELSE /\ eng' = FailureLoad(eng, files)
            /\ engOut' =
                 [NoOut EXCEPT !.op = "load_model",
                    !.status = IF files.model.present /\ files.scaler.present
                               THEN "ok" ELSE "False"]
    /\ UNCHANGED <<files, saved, notEngine>>

\* the scaler file disappears from the models directory
RemoveScalerFile ==
    /\ Idle
    /\ files.scaler.present
    /\ files' = [files EXCEPT !.scaler = NoFiles.scaler]
    /\ UNCHANGED <<eng, saved, engOut, notEngine>>

\* the caller takes the outcome
EngReturn ==
    /\ ~Idle
    /\ engOut' = NoOut
    /\ UNCHANGED <<eng, files, saved, notEngine>>

EngineNext ==
    \/ \E selector \in Selectors : EngConstruct("anomaly", selector)
    \/ \E selector \in Selectors : EngConstruct("failure", selector)
    \/ \E D \in TrainSets : EngTrain(D)
    \/ \E X \in Batches : EngDetectAnomalies(X)
    \/ \E X \in Batches : EngPredictFailureRisk(X)
    \/ \E X \in Batches : EngPredictTimeWindow(X, DaysColumn(X))
    \/ EngSave
    \/ EngLoad
    \/ RemoveScalerFile
    \/ EngReturn

\* the failure engine with feature tables of every days_since_last_issue
\* column
TimeWindowNext ==
    \/ \E selector \in Selectors : EngConstruct("failure", selector)
    \/ \E D \in TrainSets : EngTrain(D)
    \/ \E X \in Batches : \E days \in DaysColumns(Len(X)) :
          EngPredictTimeWindow(X, days)
    \/ EngReturn

RiskNext ==
    \/ \E wf, wa, wr \in 0 .. MaxWeight : Construct(wf, wa, wr)
    \/ \E f, a, r \in RiskInputs, crit \in 0 .. MaxCritical :
          CalculateBuildingRisk(f, a, r, crit)
    \/ CalculateAgain
    \/ ReturnRisk

\* a call and the call with one input raised
MonotoneNext ==
    \/ \E wf, wa, wr \in 0 .. MaxWeight : Construct(wf, wa, wr)
    \/ \E f, a, r \in RiskInputs : CalculateBuildingRisk(f, a, r, 0)
    \/ \E input \in {"failure_probability", "anomaly_probability",
                     "issue_frequency_score"}, x \in RiskInputs :
          CalculateRaised(input, x)
    \/ ReturnRisk

----------------------------------------------------------------------------
(* api_integration.py and train_risk_probability.py: the prediction API,   *)
(* its risk handlers and the risk training pipeline.  A building of the    *)
(* data set is its row of the feature tables: days_since_last_issue, the   *)
(* number of its issues and the number of those with severity >= 4.        *)

MaxBuildings == 2
MaxIssues == 1
MaxDays == 1

BuildingRows ==
    { [days |-> d, num_issues |-> n, critical |-> k] :
        d \in 0 .. MaxDays, n \in 0 .. MaxIssues, k \in 0 .. MaxIssues }

\* larger data sets: three buildings that the two detectors rank alike
\* but score differently, and buildings with many issues, none, some or
\* all of them of severity >= 4
BusyCampuses ==
    { <<[days |-> 0, num_issues |-> 1, critical |-> 0],
        [days |-> 1, num_issues |-> 3, critical |-> 2],
        [days |-> 0, num_issues |-> 4, critical |-> 1]>>,
      <<[days |-> 1, num_issues |-> 50, critical |-> 0],
        [days |-> 0, num_issues |-> 100, critical |-> 100]>> }

\* LocalDataLoader.load_sample_data(): issues_df and buildings_df
Campuses ==
    BusyCampuses \cup
    UNION { { c \in [1 .. n -> BuildingRows] :
                \A i \in 1 .. n : /\ c[i].critical \in {0, c[i].num_issues}
                                  /\ c[i].days \in {0, MaxDays} } :
            n \in 1 .. MaxBuildings }

\* an engine as its training script leaves it
Trained(class, selector, D) == EngineTrain(EngineInit(class, selector), D)

NoRiskFile == [present |-> FALSE, obj |-> NoRiskModel]

\* the models directory before anything was trained
NoDisk ==
    [failure |-> NoFiles, anomaly_if |-> NoFiles, anomaly_svm |-> NoFiles,
     risk |-> NoRiskFile]

\* the models directory as the training scripts can leave it: every model
\* that was trained was trained on the same data, and a scaler file of the
\* isolation forest may be missing
Disks ==
    { [failure |-> IF f THEN SaveFiles(Trained("failure", "xgboost", D))
                   ELSE NoFiles,
       anomaly_if |->
           CASE i = "both" ->
                   SaveFiles(Trained("anomaly", "isolation_forest", D))
             [] i = "model" ->
                   [SaveFiles(Trained("anomaly", "isolation_forest", D))
                      EXCEPT !.scaler = NoFiles.scaler]
             [] OTHER -> NoFiles,
       anomaly_svm |-> IF s THEN SaveFiles(Trained("anomaly", "one_class_svm", D))
                       ELSE NoFiles,
       risk |-> IF r THEN [present |-> TRUE, obj |-> RiskModelInit(4, 3, 3)]
                ELSE NoRiskFile] :
      D \in TrainSets, f \in BOOLEAN, i \in {"both", "model", "none"},
      s \in BOOLEAN, r \in BOOLEAN }

NoApi ==
    [status |-> "none", model |-> NoEngine, anomaly_if |-> NoEngine,
     anomaly_svm |-> NoEngine, risk_model |-> NoRiskModel]

NoResp == [op |-> "none", status |-> "none"]

\* PredictionAPI.__init__ with _load_anomaly_models and _load_risk_model: a
\* load that raises leaves what was assigned before it and skips the rest
PredictionAPI(d) ==
    [status |-> "ok",
     model |-> FailureLoad(EngineInit("failure", "xgboost"), d.failure),
     anomaly_if |->
         IF d.anomaly_if.model.present
         THEN AnomalyLoad(EngineInit("anomaly", "isolation_forest"), d.anomaly_if)
         ELSE NoEngine,
     anomaly_svm |->
         IF d.anomaly_svm.model.present
            /\ (d.anomaly_if.model.present => d.anomaly_if.scaler.present)
         THEN AnomalyLoad(EngineInit("anomaly", "one_class_svm"), d.anomaly_svm)
         ELSE NoEngine,
     risk_model |-> IF d.risk.present THEN d.risk.obj ELSE NoRiskModel]

\* dict.get(key, default)
DictGet(d, key, default) == IF key \in DOMAIN d THEN d[key] ELSE default

\* sorted(q, key=..., reverse=True): descending and stable; before[i][j]
\* tells whether the key of q[i] is greater than the key of q[j]
SortedDesc(q, before) ==
    LET n == Len(q)
        place(i) ==
            1 + Cardinality({ j \in 1 .. n : before[j][i] })
              + Cardinality({ j \in 1 .. i - 1 :
                                ~before[j][i] /\ ~before[i][j] })
    IN  [k \in 1 .. n |-> q[CHOOSE i \in 1 .. n : place(i) = k]]

\* PredictionFormatter.format_predictions: the camelCase keys of the API
format_predictions(predictions) ==
    [i \in 1 .. Len(predictions) |->
        [buildingId |-> predictions[i].building_id,
         failureProbability |-> predictions[i].failure_probability,
         riskLevel |-> predictions[i].failure_risk_level,
         estimatedDaysToFailure |-> predictions[i].estimated_days_to_failure,
         confidence |-> predictions[i].confidence,
         actionRequired |->
             predictions[i].failure_risk_level \in {"CRITICAL", "HIGH"}]]

\* predict_time_window as the loop over buildings_df leaves it: one result
\* per building that has issues, or the error the call raised
TimeWindowRows(out, c) ==
    LET row(i) == [building_id |-> i,
                   failure_probability |-> out.records[i].failure_probability,
                   failure_risk_level |-> out.records[i].failure_risk_level,
                   estimated_days_to_failure |->
                       out.records[i].estimated_days_to_failure,
                   confidence |-> out.records[i].confidence]
        hasIssues(r) == c[r.building_id].num_issues # 0
    IN  IF out.status = "error"
        THEN [status |-> "error", error |-> out.error, results |-> <<>>]
        ELSE [status |-> "ok", error |-> "none",
              results |-> SelectSeq([i \in 1 .. Len(c) |-> row(i)], hasIssues)]

TimeWindowResults(e, c) ==
    TimeWindowRows(predict_time_window(e, [i \in 1 .. Len(c) |-> c[i].days],
                                       DaysColumn([i \in 1 .. Len(c) |-> c[i].days])),
                   c)

\* the two returns of get_predictions
PredictionsResponse(p) ==
    IF p.status = "error"
    THEN [status |-> "error", message |-> p.error]
    ELSE [status |-> "success", predictions |-> format_predictions(p.results)]

\* PredictionAPI.get_predictions
get_predictions(a, c) == PredictionsResponse(TimeWindowResults(a.model, c))

\* the numeric anomaly features of the buildings
AnomalyFeatures(c) == [i \in 1 .. Len(c) |-> c[i].num_issues]

\* ensemble_probs = (if_probs + svm_probs) / 2
EnsembleProbabilityFirstOnly(if_prob, svm_prob) == if_prob
EnsembleProbability(if_prob, svm_prob) ==
    RatNorm(Rat(RatAdd(if_prob, svm_prob).num, 2 * RatAdd(if_prob, svm_prob).den))

\* the anomalies list before it is sorted: medium and above
IncludedAnomalies(if_probs, svm_probs) ==
    LET row(i) ==
            [building_id |-> i,
             anomaly_probability |-> EnsembleProbability(if_probs[i], svm_probs[i]),
             anomaly_severity |->
                 IF RatLe(Rat(8, 10), EnsembleProbability(if_probs[i], svm_probs[i]))
                 THEN "CRITICAL"
                 ELSE IF RatLe(Rat(6, 10),
                               EnsembleProbability(if_probs[i], svm_probs[i]))
                 THEN "HIGH"
                 ELSE "MEDIUM",
             if_probability |-> if_probs[i],
             svm_probability |-> svm_probs[i]]
        included(r) == RatLt(Rat(4, 10), r.anomaly_probability)
    IN  SelectSeq([i \in 1 .. Len(if_probs) |-> row(i)], included)

\* sorted(anomalies, key=lambda x: x['anomaly_probability'], reverse=True)
AnomaliesByProbability(q) ==
    SortedDesc(q, [i \in 1 .. Len(q) |-> [j \in 1 .. Len(q) |->
                     RatLt(q[j].anomaly_probability, q[i].anomaly_probability)]])

\* the returns of get_anomalies, given what the two detect_anomalies calls
\* give when they are reached
AnomaliesResponse(a, if_out, svm_out) ==
    IF a.anomaly_if.status # "ok"
    THEN [status |-> "error", message |-> "Anomaly detection models not trained"]
    ELSE IF if_out.status = "error"
    THEN [status |-> "error", message |-> if_out.error]
    ELSE IF a.anomaly_svm.status # "ok"
    THEN [status |-> "error", message |-> "AttributeError"]
    ELSE IF svm_out.status = "error"
    THEN [status |-> "error", message |-> svm_out.error]
    ELSE [status |-> "success",
          anomalies |->
              AnomaliesByProbability(
                  IncludedAnomalies(if_out.probabilities, svm_out.probabilities))]

\* PredictionAPI.get_anomalies
get_anomalies(a, c) ==
    AnomaliesResponse(a, detect_anomalies(a.anomaly_if, AnomalyFeatures(c)),
                      detect_anomalies(a.anomaly_svm, AnomalyFeatures(c)))

\* the failure_map / anomaly_map of the risk handlers, from a response
ResponseMap(entries, idKey, valueKey) ==
    [b \in { entries[i][idKey] : i \in 1 .. Len(entries) } |->
        LET i == CHOOSE i \in 1 .. Len(entries) :
                    /\ entries[i][idKey] = b
                    /\ \A j \in i + 1 .. Len(entries) : entries[j][idKey] # b
        IN  entries[i][valueKey]]

\* the floor of np.sqrt(n), by bisection: lo * lo <= n < hi * hi
RECURSIVE ISqrtBetween(_, _, _)
ISqrtBetween(n, lo, hi) ==
    IF hi - lo <= 1 THEN lo
    ELSE IF ((lo + hi) \div 2) * ((lo + hi) \div 2) <= n
    THEN ISqrtBetween(n, (lo + hi) \div 2, hi)
    ELSE ISqrtBetween(n, lo, (lo + hi) \div 2)

\* a float probability as a fixed-point number of Scale units
ToScale(p) == RatFloor(RatMulInt(p, Scale))

\* the freq_score of the risk handlers: square-root scale plus the boost
\* for the ratio of critical issues
HandlerFreqScore(num_issues, recent_critical) ==
    IF num_issues = 0 THEN 0
    ELSE Min(Scale,
             Min(Scale, ISqrtBetween((num_issues * Scale * Scale) \div 100,
                                      0, 40 * Scale))
                + Min(200, (recent_critical * 400) \div num_issues))

\* the loop that scores every building of buildings_df: a building the
\* failure_map or the anomaly_map does not hold gets 0.0 for it
BuildingRisks(risk_model, failure_map, anomaly_map, freq_scores, c) ==
    [b \in 1 .. Len(c) |->
        [building_id |-> b,
         risk |-> calculate_building_risk(
                      risk_model,
                      DictGet(failure_map, b, 0),
                      ToScale(DictGet(anomaly_map, b, RatInt(0))),
                      freq_scores[b],
                      c[b].critical)]]

\* the building_risks of get_risk_scores and get_priority_buildings
HandlerBuildingRisks(a, c) ==
    BuildingRisks(
        a.risk_model,
        ResponseMap(DictGet(get_predictions(a, c), "predictions", <<>>),
                    "buildingId", "failureProbability"),
        ResponseMap(DictGet(get_anomalies(a, c), "anomalies", <<>>),
                    "building_id", "anomaly_probability"),
        [b \in 1 .. Len(c) |-> HandlerFreqScore(c[b].num_issues, c[b].critical)],
        c)

\* sorted(building_risks, key=risk_probability, reverse=True), or with the
\* key (risk_probability, recent_critical_issues)
RisksByProbability(q, withCritical) ==
    SortedDesc(q, [i \in 1 .. Len(q) |-> [j \in 1 .. Len(q) |->
        \/ q[i].risk.risk_probability > q[j].risk.risk_probability
        \/ /\ withCritical
           /\ q[i].risk.risk_probability = q[j].risk.risk_probability
           /\ q[i].risk.recent_critical_issues
                 > q[j].risk.recent_critical_issues]])

\* RiskProbabilityModel.prioritize_buildings
prioritize_buildings_by_probability(building_risks, top_n) ==
    SubSeq(RisksByProbability(building_risks, FALSE), 1,
           Min(top_n, Len(building_risks)))
prioritize_buildings(building_risks, top_n) ==
    SubSeq(RisksByProbability(building_risks, TRUE), 1,
           Min(top_n, Len(building_risks)))

\* GET /api/ml/risk
get_risk_scores(a, c) ==
    IF a.risk_model.status # "ok"
    THEN [op |-> "get_risk_scores", status |-> "error", http |-> 503]
    ELSE [op |-> "get_risk_scores", status |-> "success", http |-> 200,
          risk_scores |-> RisksByProbability(HandlerBuildingRisks(a, c), FALSE)]

\* GET /api/ml/risk/priority
get_priority_buildings(a, c) ==
    IF a.risk_model.status # "ok"
    THEN [op |-> "get_priority_buildings", status |-> "error", http |-> 503]
    ELSE [op |-> "get_priority_buildings", status |-> "success", http |-> 200,
          risk_scores |-> prioritize_buildings(HandlerBuildingRisks(a, c), 10)]

\* step 2 of the pipeline: the failure_map, empty when the step raised
PipelineFailureMap(p) ==
    IF p.status = "error" THEN <<>>
    ELSE ResponseMap(p.results, "building_id", "failure_probability")

\* step 3 of the pipeline: the anomaly_map, empty when load_model or
\* detect_anomalies raised
PipelineAnomalyMap(files_if, det) ==
    IF ~files_if.model.present \/ ~files_if.scaler.present \/ det.status = "error"
    THEN <<>>
    ELSE det.probabilities

\* step 4 of the pipeline: freq_score = min(1.0, len(building_issues) / 20)
PipelineFreqScore(num_issues) == Min(Scale, (num_issues * Scale) \div 20)

\* np.log(x) / np.log(30) for 1 <= x < 30, bit by bit: the fraction's k-th
\* binary digit is 1 when the square of the running value reaches 30
RECURSIVE Log30Bits(_, _, _)
Log30Bits(y, k, acc) ==
    IF k > 10 THEN (acc * Scale) \div 1024
    ELSE IF (y * y) \div Scale >= 30 * Scale
    THEN Log30Bits(((y * y) \div Scale) \div 30, k + 1, acc + 2 ^ (10 - k))
    ELSE Log30Bits((y * y) \div Scale, k + 1, acc)

\* test_freq_calculation.py: the freq_score it gives as the one of
\* api_integration.py, min(1.0, np.log(num_issues + 1) / np.log(30))
TestScriptFreqScore(num_issues) ==
    IF num_issues = 0 THEN 0
    ELSE IF num_issues + 1 >= 30 THEN Scale
    ELSE Log30Bits((num_issues + 1) * Scale, 1, 0)

\* train_risk_probability_model, steps 2 to 5: the building_risks it
\* computes from the models directory
train_risk_probability_model(d, c) ==
    [op |-> "train_risk_probability_model", status |-> "success", http |-> 0,
     risk_scores |->
        BuildingRisks(
            RiskModelInit(4, 3, 3),
            PipelineFailureMap(
                TimeWindowResults(
                    FailureLoad(EngineInit("failure", "xgboost"), d.failure), c)),
            PipelineAnomalyMap(
                d.anomaly_if,
                detect_anomalies(
                    AnomalyLoad(EngineInit("anomaly", "isolation_forest"),
                                d.anomaly_if),
                    AnomalyFeatures(c))),
            [b \in 1 .. Len(c) |-> PipelineFreqScore(c[b].num_issues)],
            c)]

\* AlertSystem.ALERT_TEMPLATES
ALERT_TEMPLATES ==
    [CRITICAL |-> [title |-> "URGENT: Critical Failure Risk Detected",
                   priority |-> 1, action |-> "IMMEDIATE MAINTENANCE REQUIRED"],
     HIGH |-> [title |-> "HIGH: Significant Failure Risk",
               priority |-> 2, action |-> "SCHEDULE MAINTENANCE SOON"],
     MEDIUM |-> [title |-> "MEDIUM: Moderate Failure Risk",
                 priority |-> 3, action |-> "PLAN MAINTENANCE"],
     LOW |-> [title |-> "LOW: Minor Failure Risk",
              priority |-> 4, action |-> "ROUTINE MONITORING"]]

\* pred[key] raises KeyError for a key the dictionary does not have
HasKeys(pred, keys) == keys \subseteq DOMAIN pred

\* AlertSystem.generate_alert
generate_alert(prediction) ==
    LET template == ALERT_TEMPLATES[prediction.failure_risk_level] IN
    [buildingId |-> prediction.building_id,
     title |-> template.title,
     priority |-> template.priority,
     riskLevel |-> prediction.failure_risk_level,
     probability |-> prediction.failure_probability,
     estimatedDaysToFailure |-> prediction.estimated_days_to_failure,
     actionRequired |-> template.action]

\* AlertSystem.generate_alerts: an alert for each CRITICAL or HIGH
\* prediction, sorted by priority (sorted is stable)
generate_alerts(predictions) ==
    IF \E i \in 1 .. Len(predictions) :
          ~HasKeys(predictions[i], {"failure_risk_level"})
    THEN [status |-> "KeyError", alerts |-> <<>>]
    ELSE LET urgent(p) == p.failure_risk_level \in {"CRITICAL", "HIGH"}
             chosen == SelectSeq(predictions, urgent)
         IN  IF \E i \in 1 .. Len(chosen) :
                   ~HasKeys(chosen[i], {"building_id", "failure_probability",
                                        "estimated_days_to_failure"})
             THEN [status |-> "KeyError", alerts |-> <<>>]
             ELSE LET alerts == [i \in 1 .. Len(chosen) |->
                                    generate_alert(chosen[i])]
                  IN  [status |-> "ok",
                       alerts |->
                           SortedDesc(alerts,
                               [i \in 1 .. Len(alerts) |->
                                   [j \in 1 .. Len(alerts) |->
                                       alerts[i].priority < alerts[j].priority]])]

\* PredictionFormatter.group_by_risk_level
group_by_risk_level(predictions) ==
    IF \E i \in 1 .. Len(predictions) :
          ~HasKeys(predictions[i], {"failure_risk_level"})
    THEN [status |-> "KeyError", grouped |-> <<>>]
    ELSE [status |-> "ok",
          grouped |->
              [level \in {"CRITICAL", "HIGH", "MEDIUM", "LOW"} |->
                  LET at(p) == p.failure_risk_level = level
                  IN  SelectSeq(predictions, at)]]

\* PredictionAPI.get_alerts: the alerts are generated from the formatted
\* predictions of the response
get_alerts(a, c) ==
    LET predictions_response == get_predictions(a, c)
        generated == generate_alerts(predictions_response.predictions)
    IN  IF predictions_response.status # "success"
        THEN predictions_response
        ELSE IF generated.status # "ok"
        THEN [status |-> "error", message |-> generated.status]
        ELSE [status |-> "success",
              alerts |-> generated.alerts,
              totalAlerts |-> Len(generated.alerts),
              criticalAlerts |->
                  Cardinality({ i \in 1 .. Len(generated.alerts) :
                                  generated.alerts[i].priority = 1 })]

\* PredictionAPI.get_risk_summary
get_risk_summary(a, c) ==
    LET predictions_response == get_predictions(a, c)
        result == group_by_risk_level(predictions_response.predictions)
    IN  IF predictions_response.status # "success"
        THEN predictions_response
        ELSE IF result.status # "ok"
        THEN [status |-> "error", message |-> result.status]
        ELSE [status |-> "success",
              riskLevels |-> [level \in DOMAIN result.grouped |->
                                 Len(result.grouped[level])],
              buildings |-> result.grouped]

\* GET /api/ml/health: model_loaded is api.model.classifier is not None
health_check(a) ==
    [op |-> "health_check", status |-> "healthy",
     model_loaded |-> a.model.model.kind # "None"]

ApiIdle == resp.op = "none"

\* the training scripts have run (or not) and the data set is in place
Deploy ==
    /\ campus = <<>>
    /\ disk' \in Disks
    /\ campus' \in Campuses
    /\ UNCHANGED <<api, resp, notApi>>

\* api = PredictionAPI(): the service starts, or restarts, on the directory
ApiStart ==
    /\ campus # <<>>
    /\ ApiIdle
    /\ api' = PredictionAPI(disk)
    /\ UNCHANGED <<disk, campus, resp, notApi>>

\* GET /api/ml/predictions
GetPredictions ==
    /\ api.status = "ok"
    /\ ApiIdle
    /\ resp' = [op |-> "get_predictions"] @@ get_predictions(api, campus)
    /\ UNCHANGED <<disk, api, campus, notApi>>

\* GET /api/ml/anomalies
GetAnomalies ==
    /\ api.status = "ok"
    /\ ApiIdle
    /\ resp' = [op |-> "get_anomalies"] @@ get_anomalies(api, campus)
    /\ UNCHANGED <<disk, api, campus, notApi>>

\* GET /api/ml/risk
GetRiskScores ==
    /\ api.status = "ok"
    /\ ApiIdle
    /\ resp' = get_risk_scores(api, campus)
    /\ UNCHANGED <<disk, api, campus, notApi>>

\* GET /api/ml/risk/priority
GetPriorityBuildings ==
    /\ api.status = "ok"
    /\ ApiIdle
    /\ resp' = get_priority_buildings(api, campus)
    /\ UNCHANGED <<disk, api, campus, notApi>>

\* python train_risk_probability.py: scores every building and saves the
\* risk model
TrainRiskProbability ==
    /\ campus # <<>>
    /\ ApiIdle
    /\ resp' = train_risk_probability_model(disk, campus)
    /\ disk' = [disk EXCEPT !.risk = [present |-> TRUE,
                                      obj |-> RiskModelInit(4, 3, 3)]]
    /\ UNCHANGED <<api, campus, notApi>>

\* GET /api/ml/alerts
GetAlerts ==
    /\ api.status = "ok"
    /\ ApiIdle
    /\ resp' = [op |-> "get_alerts"] @@ get_alerts(api, campus)
    /\ UNCHANGED <<disk, api, campus, notApi>>

\* GET /api/ml/risk-summary
GetRiskSummary ==
    /\ api.status = "ok"
    /\ ApiIdle
    /\ resp' = [op |-> "get_risk_summary"] @@ get_risk_summary(api, campus)
    /\ UNCHANGED <<disk, api, campus, notApi>>

\* GET /api/ml/health
HealthCheck ==
    /\ api.status = "ok"
    /\ ApiIdle
    /\ resp' = health_check(api)
    /\ UNCHANGED <<disk, api, campus, notApi>>

\* the caller takes the response
ApiReturn ==
    /\ ~ApiIdle
    /\ resp' = NoResp
    /\ UNCHANGED <<disk, api, campus, notApi>>

ApiNext ==
    \/ Deploy
    \/ ApiStart
    \/ GetPredictions
    \/ GetAnomalies
    \/ GetRiskScores
    \/ GetPriorityBuildings
    \/ TrainRiskProbability
    \/ HealthCheck
    \/ GetAlerts
    \/ GetRiskSummary
    \/ ApiReturn

----------------------------------------------------------------------------
(* The statistical detectors of AnomalyDetectionModel.  An issue is a row  *)
(* [building_id, created_at]; created_at is a time in ticks, TicksPerHour  *)
(* ticks to the hour.  A z-score is kept as its sign and its exact square, *)
(* and compared with a threshold given in tenths.                          *)

TicksPerHour == 2
TicksPerDay == 24 * TicksPerHour

\* the defaults of detect_spike_anomalies: window_days = 7, threshold = 2.0
window_days_default == 7
threshold_default == 20

\* the other window and threshold a caller passes
WideWindow == 11
LowThreshold == 10

Windows == {window_days_default, WideWindow}
Thresholds == {threshold_default, LowThreshold}

buildings_df == <<"A", "B">>

\* issues_df[issues_df['building_id'] == building_id]
WholeTable(df, b) == df
BuildingIssues(df, b) ==
    LET ofBuilding(r) == r.building_id = b IN SelectSeq(df, ofBuilding)

CreatedAt(rows) == [j \in 1 .. Len(rows) |-> rows[j].created_at]

\* created_at.dt.date / date.date(): the calendar day of a time
DayOf(t) == t \div TicksPerDay

\* pd.date_range(start, end, freq='D'): start, start + 1 day, ... up to end
date_range(start, end) ==
    [k \in 1 .. (end - start) \div TicksPerDay + 1 |->
        start + (k - 1) * TicksPerDay]

\* the daily_counts loop: issues whose calendar day is the day of each date
DailyCounts(times, dates) ==
    [k \in 1 .. Len(dates) |->
        Cardinality({ j \in 1 .. Len(times) : DayOf(times[j]) = DayOf(dates[k]) })]

\* rolling(window, center=True): the window of position i (from 0) ends
\* CenterOffset positions after i
TrailingOffset(w) == 0
CenterOffset(w) == (w - 1) \div 2

RollingLo(i, w) == i + CenterOffset(w) - w + 1
RollingHi(i, w) == i + CenterOffset(w)

\* the window is full (min_periods = window); std needs two observations
RollingDefined(n, i, w) ==
    w >= 2 /\ RollingLo(i, w) >= 0 /\ RollingHi(i, w) <= n - 1

RollingSum(counts, i, w) ==
    SeqSum(SubSeq(counts, RollingLo(i, w) + 1, RollingHi(i, w) + 1))

RollingSumSq(counts, i, w) ==
    SeqSum([k \in 1 .. w |->
              counts[RollingLo(i, w) + k] * counts[RollingLo(i, w) + k]])

\* w * (w - 1) * rolling variance (ddof = 1): zero exactly when std is zero
RollingSpread(counts, i, w) ==
    w * RollingSumSq(counts, i, w)
        - RollingSum(counts, i, w) * RollingSum(counts, i, w)

\* z_score = (daily_counts[i] - rolling_mean[i]) / rolling_std[i]
SpikeZOfStandardError(counts, i, w) ==
    LET dev == w * counts[i + 1] - RollingSum(counts, i, w) IN
    [sign |-> IF dev > 0 THEN 1 ELSE IF dev < 0 THEN -1 ELSE 0,
     sq |-> Rat(dev * dev * (w - 1), RollingSpread(counts, i, w))]
SpikeZ(counts, i, w) ==
    LET dev == w * counts[i + 1] - RollingSum(counts, i, w) IN
    [sign |-> IF dev > 0 THEN 1 ELSE IF dev < 0 THEN -1 ELSE 0,
     sq |-> Rat(dev * dev * (w - 1), w * RollingSpread(counts, i, w))]

\* abs(z_score) > tenths / 10
AbsExceeds(z, tenths) == 100 * z.sq.num > tenths * tenths * z.sq.den

\* z_score < -tenths / 10
Below(z, tenths) == z.sign < 0 /\ AbsExceeds(z, tenths)

\* len(building_issues) < window_days
NeverTooFewIssues(building_issues, w) == FALSE
TooFewIssues(building_issues, w) == Len(building_issues) < w

\* the records of one evaluated building, interior days in order
SpikeRecords(b, dates, counts, w, t) ==
    LET n == Len(counts)
        interior == [k \in 1 .. Max(0, n - 2 * w) |-> w + k - 1]
        flagged(i) ==
            /\ RollingDefined(n, i, w)
            /\ RollingSpread(counts, i, w) # 0
            /\ AbsExceeds(SpikeZ(counts, i, w), t)
        days == SelectSeq(interior, flagged)
    IN  [j \in 1 .. Len(days) |->
            LET i == days[j] IN
            [building_id |-> b,
             anomaly_type |-> "frequency_spike",
             anomaly_date |-> dates[i + 1],
             daily_count |-> counts[i + 1],
             expected_count |-> Rat(RollingSum(counts, i, w), w),
             z_score |-> SpikeZ(counts, i, w),
             severity |-> IF AbsExceeds(SpikeZ(counts, i, w), 30)
                          THEN "CRITICAL" ELSE "HIGH"]]

\* one pass of the loop of detect_spike_anomalies over a building: how far
\* it got and what it appended; date_range raises on the NaT of no issues
SpikeBuilding(df, b, w, t) ==
    LET building_issues == BuildingIssues(df, b)
        times == CreatedAt(building_issues)
    IN  IF TooFewIssues(building_issues, w)
        THEN [status |-> "too_few_issues", records |-> <<>>]
        ELSE IF times = <<>>
        THEN [status |-> "ValueError", records |-> <<>>]
        ELSE LET dates == date_range(SeqMin(times), SeqMax(times))
                 daily_counts == DailyCounts(times, dates)
             IN  IF Len(daily_counts) < w * 2
                 THEN [status |-> "too_few_days", records |-> <<>>]
                 ELSE [status |-> "evaluated",
                       records |-> SpikeRecords(b, dates, daily_counts, w, t)]

RECURSIVE Flatten(_)
Flatten(qs) == IF qs = <<>> THEN <<>> ELSE Head(qs) \o Flatten(Tail(qs))

\* the result of a detector call from its passes over the buildings: an
\* exception in one pass is logged and raised out of the call
DetectorResult(op, buildings, pass) ==
    LET raised(k) == pass[k].status \in {"ValueError"}
        evaluated(k) == pass[k].status = "evaluated"
    IN  IF \E k \in 1 .. Len(buildings) : raised(k)
        THEN [op |-> op, status |-> "error", records |-> <<>>,
              evaluated |-> {}]
        ELSE [op |-> op, status |-> "ok",
              records |-> Flatten([k \in 1 .. Len(buildings) |-> pass[k].records]),
              evaluated |-> { buildings[k] :
                                k \in { j \in 1 .. Len(buildings) : evaluated(j) } }]

\* AnomalyDetectionModel.detect_spike_anomalies
detect_spike_anomalies(df, buildings, w, t) ==
    DetectorResult("detect_spike_anomalies", buildings,
        [k \in 1 .. Len(buildings) |-> SpikeBuilding(df, buildings[k], w, t)])
        @@ [window_days |-> w, threshold |-> t]

\* sort_values('created_at') of the times
RECURSIVE InsertAsc(_, _)
InsertAsc(q, x) ==
    IF q = <<>> THEN <<x>>
    ELSE IF x < Head(q) THEN <<x>> \o q
    ELSE <<Head(q)>> \o InsertAsc(Tail(q), x)

RECURSIVE SortAsc(_)
SortAsc(q) ==
    IF q = <<>> THEN <<>>
    ELSE InsertAsc(SortAsc(SubSeq(q, 1, Len(q) - 1)), q[Len(q)])

\* np.diff(arrival_times).astype('timedelta64[h]').astype(float)
InterArrivalHours(sorted) ==
    [k \in 1 .. Len(sorted) - 1 |-> (sorted[k + 1] - sorted[k]) \div TicksPerHour]

\* n^2 * np.std(gaps)^2 (population): zero exactly when std_time is zero
GapSpread(gaps) ==
    Len(gaps) * SeqSum([k \in 1 .. Len(gaps) |-> gaps[k] * gaps[k]])
        - SeqSum(gaps) * SeqSum(gaps)

\* z_score = (time_diff - mean_time) / std_time
GapZOfStandardError(gaps, k) ==
    LET dev == Len(gaps) * gaps[k] - SeqSum(gaps) IN
    [sign |-> IF dev > 0 THEN 1 ELSE IF dev < 0 THEN -1 ELSE 0,
     sq |-> Rat(dev * dev * Len(gaps), GapSpread(gaps))]
GapZ(gaps, k) ==
    LET dev == Len(gaps) * gaps[k] - SeqSum(gaps) IN
    [sign |-> IF dev > 0 THEN 1 ELSE IF dev < 0 THEN -1 ELSE 0,
     sq |-> Rat(dev * dev, GapSpread(gaps))]

\* z_score < -2.0
FarFromUsual(z) == AbsExceeds(z, 20)
MuchShorterThanUsual(z) == Below(z, 20)

\* one pass of the loop of detect_temporal_anomalies over a building
TemporalBuilding(df, b) ==
    LET building_issues == BuildingIssues(df, b)
        arrival_times == SortAsc(CreatedAt(building_issues))
        inter_arrival_times == InterArrivalHours(arrival_times)
        flagged(k) ==
            /\ GapSpread(inter_arrival_times) # 0
            /\ MuchShorterThanUsual(GapZ(inter_arrival_times, k))
        short == SelectSeq([k \in 1 .. Len(inter_arrival_times) |-> k], flagged)
    IN  IF Len(building_issues) < 5
        THEN [status |-> "too_few_issues", records |-> <<>>]
        ELSE IF Len(inter_arrival_times) < 2
        THEN [status |-> "too_few_gaps", records |-> <<>>]
        ELSE [status |-> "evaluated",
              records |->
                [j \in 1 .. Len(short) |->
                    LET k == short[j] IN
                    [building_id |-> b,
                     anomaly_type |-> "temporal_clustering",
                     time_index |-> k - 1,
                     inter_arrival_hours |-> inter_arrival_times[k],
                     expected_hours |-> Rat(SeqSum(inter_arrival_times),
                                            Len(inter_arrival_times)),
                     z_score |-> GapZ(inter_arrival_times, k),
                     severity |-> IF Below(GapZ(inter_arrival_times, k), 30)
                                  THEN "HIGH" ELSE "MEDIUM"]]]

\* AnomalyDetectionModel.detect_temporal_anomalies
detect_temporal_anomalies(df, buildings) ==
    DetectorResult("detect_temporal_anomalies", buildings,
        [k \in 1 .. Len(buildings) |-> TemporalBuilding(df, buildings[k])])
        @@ [window_days |-> 0, threshold |-> 20]

\* the issue tables the detectors are run on.  A table holds the history
\* of one building drawn from a family built around the windows and the
\* gap statistics, and the history of the other building drawn from Others.
MaxExtraDays == 2
Burst == 9
MaxGaps == 11
MaxOddGaps == 2

Stamp(day, tick) == day * TicksPerDay + tick

Rows(b, t, count) == [j \in 1 .. count |-> [building_id |-> b, created_at |-> t]]

\* a first issue on day 0 (late in the day or at midnight), cs issues on
\* day s, possibly one issue nb days later, and an issue on day L
SpikeHistory(b, L, s, cs, nb, late) ==
    Rows(b, Stamp(0, IF late THEN TicksPerDay - 1 ELSE 0), 1)
        \o Rows(b, Stamp(s, 0), cs)
        \o (IF nb > 0 THEN Rows(b, Stamp(s + nb, 0), 1) ELSE <<>>)
        \o Rows(b, Stamp(L, 0), 1)

SpikeHistories(b) ==
    { SpikeHistory(b, p[2], p[3], cs, nb, late) :
        p \in { q \in Windows \X (0 .. 2 * WideWindow + MaxExtraDays)
                              \X (0 .. 2 * WideWindow + MaxExtraDays) :
                  /\ q[2] \in 2 * q[1] - 2 .. 2 * q[1] + MaxExtraDays
                  /\ q[3] \in q[1] - 1 .. q[2] - q[1] + 1 },
        cs \in {1, Burst}, nb \in 0 .. 2, late \in BOOLEAN }

\* issues separated by the given gaps (in ticks), in time order or reversed
GapHistory(b, gaps, reversed) ==
    LET n == Len(gaps) + 1
        at(k) == SeqSum(SubSeq(gaps, 1, k - 1))
    IN  [j \in 1 .. n |->
            [building_id |-> b,
             created_at |-> at(IF reversed THEN n + 1 - j ELSE j)]]

GapKinds == {TicksPerHour + 1, TicksPerDay}

\* ng gaps of the usual length, but m gaps in a row from the p-th of the
\* other length
TemporalHistories(b) ==
    { GapHistory(b, [k \in 1 .. ng |-> IF k \in p .. p + m - 1 THEN other
                                       ELSE usual], reversed) :
        ng \in 3 .. MaxGaps, p \in 1 .. MaxGaps, m \in 0 .. MaxOddGaps,
        usual \in GapKinds, other \in GapKinds, reversed \in BOOLEAN }

Others(b) ==
    { <<>>,
      Rows(b, Stamp(0, 0), 1),
      Rows(b, Stamp(0, 0), Burst),
      Rows(b, Stamp(0, 0), 1) \o Rows(b, Stamp(2 * WideWindow + MaxExtraDays, 0), 1),
      SpikeHistory(b, 2 * window_days_default + MaxExtraDays,
                   window_days_default + 1, Burst, 0, FALSE),
      GapHistory(b, [k \in 1 .. 6 |-> IF k = 2 THEN TicksPerHour ELSE TicksPerDay],
                 FALSE) }

IssueTables ==
    UNION { { h \o o : h \in SpikeHistories(p[1]) \cup TemporalHistories(p[1]),
                       o \in Others(p[2]) } :
            p \in { <<"A", "B">>, <<"B", "A">> } }

NoDetOut ==
    [op |-> "none", status |-> "none", records |-> <<>>, evaluated |-> {},
     window_days |-> 0, threshold |-> 0]

NoTasks == [done |-> {}, failed |-> FALSE, gathered |-> <<>>]

DetIdle == detOut.op = "none"

\* the caller reads the issues
LoadIssues ==
    /\ DetIdle
    /\ issues_df = <<>>
    /\ issues_df' \in IssueTables
    /\ UNCHANGED <<detOut, tasks, notDetect>>

\* detect_spike_anomalies(issues_df, buildings_df, window_days, threshold)
DetectSpikeAnomalies(w, t) ==
    /\ DetIdle
    /\ detOut' = detect_spike_anomalies(issues_df, buildings_df, w, t)
    /\ UNCHANGED <<issues_df, tasks, notDetect>>

\* detect_temporal_anomalies(issues_df, buildings_df)
DetectTemporalAnomalies ==
    /\ DetIdle
    /\ detOut' = detect_temporal_anomalies(issues_df, buildings_df)
    /\ UNCHANGED <<issues_df, tasks, notDetect>>

\* the caller takes the list of records
DetectReturn ==
    /\ ~DetIdle
    /\ detOut' = NoDetOut
    /\ tasks' = NoTasks
    /\ UNCHANGED <<issues_df, notDetect>>

\* the copy of a building's rows that a call for the building alone is
\* given
TaskIssues(df, b) ==
    LET own(r) == r.building_id = b IN SelectSeq(df, own)

\* the detector of the pending call, called again with the rows of one
\* building as its issues_df and the building as its buildings_df
BuildingTask(out, df, b) ==
    IF out.op = "detect_spike_anomalies"
    THEN detect_spike_anomalies(TaskIssues(df, b), <<b>>,
                                out.window_days, out.threshold)
    ELSE detect_temporal_anomalies(TaskIssues(df, b), <<b>>)

\* what the calls for single buildings have returned so far, in the order
\* in which they returned
TasksAfter(t, b, out) ==
    [done |-> t.done \cup {b},
     failed |-> t.failed \/ out.status = "error",
     gathered |-> t.gathered \o out.records]

\* a call for one building of the table that has had none, made while the
\* result of the call for the whole table is at hand
RunBuildingTask(b) ==
    /\ ~DetIdle
    /\ b \notin tasks.done
    /\ tasks' = TasksAfter(tasks, b, BuildingTask(detOut, issues_df, b))
    /\ UNCHANGED <<issues_df, detOut, notDetect>>

DetectNext ==
    \/ LoadIssues
    \/ \E w \in Windows, t \in Thresholds : DetectSpikeAnomalies(w, t)
    \/ DetectTemporalAnomalies
    \/ DetectReturn

\* the detectors called for the whole table and for its buildings one by
\* one, in any order
TasksNext ==
    \/ LoadIssues
    \/ \E w \in Windows, t \in Thresholds : DetectSpikeAnomalies(w, t)
    \/ DetectTemporalAnomalies
    \/ \E k \in 1 .. Len(buildings_df) : RunBuildingTask(buildings_df[k])
    \/ DetectReturn

----------------------------------------------------------------------------
(* The rollups of RiskProbabilityModel: prioritize_buildings,              *)
(* calculate_zone_risk and generate_risk_report over a list of building    *)
(* risk dictionaries.  An entry is [building_id, risk], risk being the     *)
(* dictionary calculate_building_risk returned.                            *)

\* a list of building risks has 0..MaxRisks entries, or is the long list
MaxRisks == 3
\* top_n ranges over 0..MaxTopN
MaxTopN == 4
\* the building table may hold up to MaxUnscored buildings more than the list
MaxUnscored == 1

\* the inputs of the scored buildings: failure and anomaly probability,
\* frequency score, recent critical issues
Profiles ==
    { <<Scale, Scale, Scale, 1>>,
      <<Scale, 0, Scale, 0>>,
      <<Scale, 0, Scale, 1>>,
      <<0, Scale, Scale, 0>>,
      <<Scale \div 2, Scale \div 2, Scale \div 2, 0>>,
      <<0, 0, 0, 0>> }

\* the risk_score the scoring loop appends for building b
RiskEntry(b, profile) ==
    [building_id |-> b,
     risk |-> calculate_building_risk(RiskModelInit(4, 3, 3), profile[1],
                                      profile[2], profile[3], profile[4])]

\* a campus of seven buildings, more than the report's top five
LongProfiles ==
    << <<0, 0, 0, 0>>, <<Scale, 0, Scale, 0>>, <<Scale, Scale, Scale, 1>>,
       <<Scale, 0, Scale, 1>>, <<Scale, Scale, Scale, 0>>,
       <<0, Scale, Scale, 0>>, <<Scale, 0, Scale, 1>> >>

RiskLists ==
    { [b \in 1 .. Len(p) |-> RiskEntry(b, p[b])] :
        p \in {LongProfiles} \cup UNION { [1 .. n -> Profiles] : n \in 0 .. MaxRisks } }

\* buildings_df of calculate_zone_risk: the columns it has and its rows
ZoneNames == {"North", "South"}
TypeOf(b) == IF b % 2 = 1 THEN "Academic" ELSE "Residential"
BuildingTables(n) ==
    UNION { { [has_zone |-> hz, has_type |-> ht,
               rows |-> [b \in 1 .. m |->
                           [id |-> b, zone |-> z[b],
                            building_type |-> TypeOf(b)]]] :
                hz \in BOOLEAN, ht \in BOOLEAN, z \in [1 .. m -> ZoneNames] } :
            m \in n .. n + MaxUnscored }

\* category_risks of generate_risk_report: no rows, or scored categories
CategoryTables ==
    { <<>>,
      <<[category |-> "WATER", category_risk_score |-> 599],
        [category |-> "ELECTRICITY", category_risk_score |-> 600],
        [category |-> "WIFI", category_risk_score |-> 0]>>,
      <<[category |-> "WATER", category_risk_score |-> 250],
        [category |-> "SANITATION", category_risk_score |-> 300]>>,
      <<[category |-> "TEMPERATURE", category_risk_score |-> 725]>> }

\* Series.unique(): the values in order of first appearance
RECURSIVE UniqueInOrder(_)
UniqueInOrder(q) ==
    IF q = <<>> THEN <<>>
    ELSE IF \E i \in 1 .. Len(q) - 1 : q[i] = q[Len(q)]
    THEN UniqueInOrder(SubSeq(q, 1, Len(q) - 1))
    ELSE Append(UniqueInOrder(SubSeq(q, 1, Len(q) - 1)), q[Len(q)])

\* the value a building is grouped by: zone, else building_type, else
\* the one zone 'Unknown'
ZoneOf(table, row) ==
    IF table.has_zone THEN row.zone
    ELSE IF table.has_type THEN row.building_type
    ELSE "Unknown"

\* zone_buildings: the rows of the zone
ZoneMembers(table, zone) ==
    LET member(row) == ZoneOf(table, row) = zone
    IN  SelectSeq(table.rows, member)

\* zone_risks_list: the risk probabilities of the members that have a
\* risk score
ZoneRisksList(members, building_risk_map) ==
    LET scored(row) == row.id \in DOMAIN building_risk_map
        risk_of(row) == building_risk_map[row.id].risk_probability
    IN  [i \in 1 .. Len(SelectSeq(members, scored)) |->
            risk_of(SelectSeq(members, scored)[i])]

\* the threshold level of a mean sum / count
MeanLevel(sum, count) ==
    IF sum >= risk_threshold_critical * count THEN "CRITICAL"
    ELSE IF sum >= risk_threshold_high * count THEN "HIGH"
    ELSE IF sum >= risk_threshold_medium * count THEN "MEDIUM"
    ELSE "LOW"

\* the number of buildings a zone row reports
BuildingCount(members, zone_risks_list) == Len(members)

\* the row appended for a zone with a non-empty zone_risks_list
ZoneRow(zone, members, zone_risks_list) ==
    [zone |-> zone,
     building_count |-> BuildingCount(members, zone_risks_list),
     avg_risk_probability |-> Rat(SeqSum(zone_risks_list), Len(zone_risks_list)),
     max_risk_probability |-> SeqMax(zone_risks_list),
     critical_buildings |->
         Cardinality({ i \in 1 .. Len(zone_risks_list) :
                         zone_risks_list[i] >= risk_threshold_critical }),
     zone_risk_level |-> MeanLevel(SeqSum(zone_risks_list), Len(zone_risks_list))]

\* the zones of the table that get a row, in the order of zones
ScoredZones(table, building_risk_map) ==
    LET scored(zone) ==
            ZoneRisksList(ZoneMembers(table, zone), building_risk_map) # <<>>
    IN  SelectSeq(UniqueInOrder([i \in 1 .. Len(table.rows) |->
                                    ZoneOf(table, table.rows[i])]), scored)

\* the rows for the given zones
ZoneRows(table, building_risk_map, zones) ==
    [k \in 1 .. Len(zones) |->
        ZoneRow(zones[k], ZoneMembers(table, zones[k]),
                ZoneRisksList(ZoneMembers(table, zones[k]), building_risk_map))]

\* RiskProbabilityModel.calculate_zone_risk
calculate_zone_risk(table, building_risks) ==
    ZoneRows(table, ResponseMap(building_risks, "building_id", "risk"),
             ScoredZones(table, ResponseMap(building_risks, "building_id", "risk")))

\* [r for r in building_risks if r['risk_level'] == level]
AtLevelOrWorse(building_risks, level) ==
    LET at(r) == \/ r.risk.risk_level = level
                 \/ level = "HIGH" /\ r.risk.risk_level = "CRITICAL"
    IN  SelectSeq(building_risks, at)
AtLevel(building_risks, level) ==
    LET at(r) == r.risk.risk_level = level
    IN  SelectSeq(building_risks, at)

\* category_risks[category_risks['category_risk_score'] >= 0.6]['category']
HighRiskCategories(category_risks) ==
    LET high(c) == c.category_risk_score >= 600
    IN  [i \in 1 .. Len(SelectSeq(category_risks, high)) |->
            SelectSeq(category_risks, high)[i].category]

\* the sum of one component over the list
RECURSIVE ComponentSum(_, _)
ComponentSum(building_risks, component) ==
    IF building_risks = <<>> THEN 0
    ELSE Head(building_risks).risk[component]
            + ComponentSum(Tail(building_risks), component)

\* the recommendations before the [:5] slice; np.mean of an empty list is
\* nan, which compares False both ways
AllRecommendations(critical, high, categories, failure_sum, anomaly_sum) ==
    (IF critical # <<>>
     THEN << [kind |-> "URGENT",
              buildings |-> [i \in 1 .. Min(3, Len(critical)) |->
                                critical[i].building_id],
              count |-> Len(critical)] >>
     ELSE <<>>)
    \o (IF high # <<>>
        THEN << [kind |-> "HIGH", buildings |-> <<>>, count |-> Len(high)] >>
        ELSE <<>>)
    \o (IF categories # <<>>
        THEN << [kind |-> "CATEGORIES", buildings |-> categories,
                 count |-> Len(categories)] >>
        ELSE <<>>)
    \o (IF failure_sum > anomaly_sum
        THEN << [kind |-> "FAILURE", buildings |-> <<>>, count |-> 0] >>
        ELSE IF anomaly_sum > failure_sum
        THEN << [kind |-> "ANOMALY", buildings |-> <<>>, count |-> 0] >>
        ELSE <<>>)

\* RiskProbabilityModel._generate_recommendations
generate_recommendations(building_risks, category_risks) ==
    SubSeq(AllRecommendations(AtLevel(building_risks, "CRITICAL"),
                              AtLevel(building_risks, "HIGH"),
                              HighRiskCategories(category_risks),
                              ComponentSum(building_risks, "failure_component"),
                              ComponentSum(building_risks, "anomaly_component")),
           1, Min(5, Len(AllRecommendations(
                             AtLevel(building_risks, "CRITICAL"),
                             AtLevel(building_risks, "HIGH"),
                             HighRiskCategories(category_risks),
                             ComponentSum(building_risks, "failure_component"),
                             ComponentSum(building_risks, "anomaly_component")))))

\* RiskProbabilityModel.generate_risk_report
generate_risk_report(building_risks, category_risks, zone_risks) ==
    [summary |->
        [total_buildings |-> Len(building_risks),
         avg_risk_probability |->
             IF building_risks # <<>>
             THEN Rat(ComponentSum(building_risks, "risk_probability"),
                      Len(building_risks))
             ELSE RatInt(0),
         critical_buildings |-> Len(AtLevel(building_risks, "CRITICAL")),
         high_risk_buildings |-> Len(AtLevel(building_risks, "HIGH")),
         critical_percentage |->
             IF building_risks # <<>>
             THEN Rat(100 * Len(AtLevel(building_risks, "CRITICAL")),
                      Len(building_risks))
             ELSE RatInt(0)],
     risk_distribution |->
        [level \in Levels |-> Len(AtLevel(building_risks, level))],
     top_priority_buildings |-> prioritize_buildings(building_risks, 5),
     high_risk_categories |-> HighRiskCategories(category_risks),
     zone_summary |-> zone_risks,
     recommendations |-> generate_recommendations(building_risks, category_risks)]

NoSurvey == [loaded |-> FALSE, building_risks |-> <<>>]
NoRepOut == [op |-> "none"]

RepIdle == repOut.op = "none"

\* the scoring loop has filled building_risks
LoadRisks ==
    /\ ~survey.loaded
    /\ survey' \in { [loaded |-> TRUE, building_risks |-> q] : q \in RiskLists }
    /\ UNCHANGED <<repOut, notReport>>

\* risk_model.prioritize_buildings(building_risks, top_n): sorted() builds
\* a new list
PrioritizeBuildings(top_n) ==
    /\ survey.loaded
    /\ RepIdle
    /\ repOut' = [op |-> "prioritize_buildings", top_n |-> top_n,
                  input |-> survey.building_risks,
                  result |-> prioritize_buildings(survey.building_risks, top_n)]
    /\ UNCHANGED <<survey, notReport>>

\* risk_model.calculate_zone_risk(buildings_df, building_risks)
CalculateZoneRisk ==
    /\ survey.loaded
    /\ RepIdle
    /\ \E table \in BuildingTables(Len(survey.building_risks)) :
          repOut' = [op |-> "calculate_zone_risk", table |-> table,
                     input |-> survey.building_risks,
                     result |-> calculate_zone_risk(table, survey.building_risks)]
    /\ UNCHANGED <<survey, notReport>>

\* the table generate_risk_report's zone_risks were computed from
PlainTable(n) ==
    [has_zone |-> TRUE, has_type |-> TRUE,
     rows |-> [b \in 1 .. n |->
                 [id |-> b, zone |-> IF b <= 2 THEN "North" ELSE "South",
                  building_type |-> TypeOf(b)]]]

\* risk_model.generate_risk_report(building_risks, category_risks, zone_risks)
GenerateRiskReport(category_risks) ==
    /\ survey.loaded
    /\ RepIdle
    /\ repOut' = [op |-> "generate_risk_report",
                  category_risks |-> category_risks,
                  input |-> survey.building_risks,
                  result |-> generate_risk_report(
                                 survey.building_risks, category_risks,
                                 calculate_zone_risk(
                                     PlainTable(Len(survey.building_risks)),
                                     survey.building_risks))]
    /\ UNCHANGED <<survey, notReport>>

\* the caller takes the result
ReportReturn ==
    /\ ~RepIdle
    /\ repOut' = NoRepOut
    /\ UNCHANGED <<survey, notReport>>

ReportNext ==
    \/ LoadRisks
    \/ \E top_n \in 0 .. MaxTopN : PrioritizeBuildings(top_n)
    \/ CalculateZoneRisk
    \/ \E category_risks \in CategoryTables : GenerateRiskReport(category_risks)
    \/ ReportReturn

----------------------------------------------------------------------------
(* feature_engineering.py and AnomalyFeatureEngineer: the features and the *)
(* failure_in_window label of one building.  The building is its row of    *)
(* buildings_df and its issues; an issue is [severity, status, category,   *)
(* days_ago, resolution_days], days_ago being whole days from created_at   *)
(* to the scoring time, negative for a future-dated issue.  A number that  *)
(* is a standard deviation over a mean is kept as its exact square, with a *)
(* flag for NaN.                                                           *)

\* a building has 0..MaxFeatIssues issues in the issue table
MaxFeatIssues == 2

Categories == {"WATER", "ELECTRICITY", "WIFI", "SANITATION", "TEMPERATURE"}
time_windows == <<7, 14, 30, 90>>
target_window_days == 30
missing_days_since_last == 999

Issue(severity, status, category, days_ago) ==
    [severity |-> severity, status |-> status, category |-> category,
     days_ago |-> days_ago,
     resolution_days |-> IF status = "RESOLVED" THEN 2 ELSE 10]

IssueKinds ==
    { Issue(5, "OPEN", "WATER", -10), Issue(2, "RESOLVED", "WIFI", -10),
      Issue(3, "RESOLVED", "WATER", -40), Issue(5, "RESOLVED", "WATER", 3),
      Issue(2, "OPEN", "WIFI", 3), Issue(4, "OPEN", "ELECTRICITY", 10),
      Issue(5, "OPEN", "WIFI", 40), Issue(2, "RESOLVED", "WATER", 40) }

\* the last_issue_date of a building's row, as days before the scoring
\* time: the table may have no such column (load_sample_data), and the
\* date is None when the loader found no issue of the building
NoDateColumn == [column |-> FALSE, none |-> TRUE, days |-> 0]
NoneDate == [column |-> TRUE, none |-> TRUE, days |-> 0]
DateOf(days) == [column |-> TRUE, none |-> FALSE, days |-> days]

\* the building's row: total_issues and last_issue_date
BuildingRowsOf(issues) ==
    IF issues = <<>>
    THEN { [total_issues |-> t, last_issue_date |-> l] :
             t \in {0, 24}, l \in {NoDateColumn, NoneDate, DateOf(400)} }
    ELSE { [total_issues |-> 24, last_issue_date |-> l] :
             l \in {NoDateColumn, DateOf(3)} }

\* chained_inplace: whether features[col].fillna(999, inplace=True) reaches
\* the frame; it does not under pandas copy-on-write
FeatureData ==
    UNION { { [loaded |-> TRUE, issues |-> q, row |-> r, chained_inplace |-> ci] :
                r \in BuildingRowsOf(q), ci \in BOOLEAN } :
            q \in UNION { [1 .. n -> IssueKinds] : n \in 0 .. MaxFeatIssues } }

Zero == [nan |-> FALSE, sq |-> RatInt(0)]
NaN == [nan |-> TRUE, sq |-> RatInt(0)]

\* DataFrame.fillna(0)
FillNa(x) == IF x.nan THEN Zero ELSE x

RECURSIVE SumOf(_, _)
SumOf(q, field) == IF q = <<>> THEN 0 ELSE Head(q)[field] + SumOf(Tail(q), field)

RECURSIVE SeqSumSq(_)
SeqSumSq(q) == IF q = <<>> THEN 0 ELSE Head(q) * Head(q) + SeqSumSq(Tail(q))

\* the square of values.std(ddof) given the count k, the sum S and the
\* sum of squares Q of the values: NaN when k <= ddof
StdSq(k, S, Q, ddof) ==
    IF k <= ddof THEN NaN
    ELSE [nan |-> FALSE, sq |-> RatNorm(Rat(k * Q - S * S, k * (k - ddof)))]

\* the square of values.std(ddof) / (values.mean() + 1)
StdOverMeanSq(k, S, Q, ddof) ==
    IF k <= ddof THEN NaN
    ELSE [nan |-> FALSE,
          sq |-> RatNorm(Rat((k * Q - S * S) * k, (k - ddof) * (S + k) * (S + k)))]

\* the issues of the building that satisfy a condition on one field
WithField(issues, field, values) ==
    LET has(i) == i[field] \in values IN SelectSeq(issues, has)

\* issues_df[created_at >= now - window], the building's part
RecentIssues(issues, window) ==
    LET recent(i) == i.days_ago <= window IN SelectSeq(issues, recent)

\* the days_ago of the issues, most distant first (sort_values('created_at'))
RECURSIVE InsertDesc(_, _)
InsertDesc(q, x) ==
    IF q = <<>> THEN <<x>>
    ELSE IF x >= Head(q) THEN <<x>> \o q
    ELSE <<Head(q)>> \o InsertDesc(Tail(q), x)

RECURSIVE SortedDaysAgo(_)
SortedDaysAgo(issues) ==
    IF issues = <<>> THEN <<>>
    ELSE InsertDesc(SortedDaysAgo(Tail(issues)), Head(issues).days_ago)

\* created_at.diff() in days of the sorted issues
TimeDiffs(sorted) == [i \in 1 .. Len(sorted) - 1 |-> sorted[i] - sorted[i + 1]]

\* FeatureEngineer._calculate_avg_resolution_time
calculate_avg_resolution_time(issues) ==
    IF issues = <<>> THEN RatInt(0)
    ELSE RatNorm(Rat(SumOf(issues, "resolution_days"), Len(issues)))

\* the weight np.exp(-days_ago / 30) of an issue, in Scale units
RecencyWeight(days_ago) == Exp((-days_ago * Scale) \div 30)

RECURSIVE WeightedSeverity(_)
WeightedSeverity(issues) ==
    IF issues = <<>> THEN 0
    ELSE Head(issues).severity * RecencyWeight(Head(issues).days_ago)
            + WeightedSeverity(Tail(issues))

RECURSIVE WeightSum(_)
WeightSum(issues) ==
    IF issues = <<>> THEN 0
    ELSE RecencyWeight(Head(issues).days_ago) + WeightSum(Tail(issues))

\* FeatureEngineer._calculate_recency_weighted_score
calculate_recency_weighted_score(issues) ==
    IF issues = <<>> THEN RatInt(0)
    ELSE Rat(WeightedSeverity(issues), WeightSum(issues))

\* FeatureEngineer._calculate_clustering_score
calculate_clustering_score(issues) ==
    IF Len(issues) < 2 THEN Zero
    ELSE StdOverMeanSq(Len(issues) - 1,
                       SeqSum(TimeDiffs(SortedDaysAgo(issues))),
                       SeqSumSq(TimeDiffs(SortedDaysAgo(issues))), 1)

\* the days_since_last_issue column: absent without last_issue_date; a
\* missing date is NaN, which fillna(999, inplace=True) on the column
\* selection replaces when it reaches the frame
DaysSinceLastIssue(row, chained_inplace) ==
    [column |-> row.last_issue_date.column,
     value |->
         IF ~row.last_issue_date.column THEN 0
         ELSE IF row.last_issue_date.none
         THEN (IF chained_inplace THEN missing_days_since_last ELSE 0)
         ELSE row.last_issue_date.days]

\* the mean severity of a window's issues; NaN of no issue is filled by 0
AvgSeverity(recent) ==
    IF recent = <<>> THEN RatInt(0)
    ELSE RatNorm(Rat(SumOf(recent, "severity"), Len(recent)))

\* FeatureEngineer.engineer_building_features, the building's row
engineer_building_features(d) ==
    [open_issues_count |-> Len(WithField(d.issues, "status", {"OPEN"})),
     avg_issues_per_month |-> RatNorm(Rat(d.row.total_issues, 12)),
     high_severity_ratio |->
         RatNorm(Rat(Len(WithField(d.issues, "severity", {4, 5})),
                     Max(Len(d.issues), 1))),
     category_issue_count |->
         [c \in Categories |-> Len(WithField(d.issues, "category", {c}))],
     days_since_last_issue |-> DaysSinceLastIssue(d.row, d.chained_inplace),
     avg_resolution_time_days |-> calculate_avg_resolution_time(d.issues),
     recency_weighted_issue_score |-> calculate_recency_weighted_score(d.issues),
     issue_clustering_score |-> FillNa(calculate_clustering_score(d.issues)),
     issues_last |->
         [w \in 1 .. Len(time_windows) |->
             Len(RecentIssues(d.issues, time_windows[w]))],
     avg_severity_last |->
         [w \in 1 .. Len(time_windows) |->
             AvgSeverity(RecentIssues(d.issues, time_windows[w]))]]

\* the label of create_training_dataset: a high-severity issue in
\* (now, now + target_window_days]
failure_in_window(issues) ==
    IF issues = <<>> THEN 0
    ELSE IF \E i \in 1 .. Len(issues) :
               /\ issues[i].days_ago < 0
               /\ issues[i].days_ago >= -target_window_days
               /\ issues[i].severity >= 4
    THEN 1 ELSE 0

\* the number of issues of each distinct value of a key: groupby(...).size()
GroupSizes(keys) ==
    [k \in 1 .. Len(UniqueInOrder(keys)) |->
        Cardinality({ i \in 1 .. Len(keys) : keys[i] = UniqueInOrder(keys)[k] })]

\* the day and the ISO week an issue falls in, counted from a Monday
DayIndex(days_ago) == 70 - days_ago
WeekIndex(days_ago) == DayIndex(days_ago) \div 7

\* the five features of a building that has issues
AnomalyFeaturesOfIssues(issues, daily_counts, weekly_counts, gaps) ==
    [issue_frequency_variance |->
         StdOverMeanSq(Len(daily_counts), SeqSum(daily_counts),
                       SeqSumSq(daily_counts), 1),
     issue_severity_variance |->
         StdOverMeanSq(Len(issues), SumOf(issues, "severity"),
                       SeqSumSq([i \in 1 .. Len(issues) |-> issues[i].severity]), 1),
     inter_arrival_variance |->
         IF Len(issues) > 1
         THEN StdOverMeanSq(Len(gaps), SeqSum(gaps), SeqSumSq(gaps), 0)
         ELSE Zero,
     daily_issue_std |->
         StdSq(Len(daily_counts), SeqSum(daily_counts), SeqSumSq(daily_counts), 1),
     weekly_issue_coefficient_variation |->
         IF Len(weekly_counts) > 1
         THEN StdOverMeanSq(Len(weekly_counts), SeqSum(weekly_counts),
                            SeqSumSq(weekly_counts), 1)
         ELSE Zero]

\* the defaults of a building with no issues
AnomalyDefaultsNone(issues) ==
    [issue_frequency_variance |-> NaN, issue_severity_variance |-> NaN,
     inter_arrival_variance |-> Zero, daily_issue_std |-> NaN,
     weekly_issue_coefficient_variation |-> Zero]
AnomalyDefaults(issues) ==
    [issue_frequency_variance |-> Zero, issue_severity_variance |-> Zero,
     inter_arrival_variance |-> Zero, daily_issue_std |-> Zero,
     weekly_issue_coefficient_variation |-> Zero]

\* AnomalyFeatureEngineer.engineer_anomaly_features, the building's row
engineer_anomaly_features(issues) ==
    IF Len(issues) = 0 THEN AnomalyDefaults(issues)
    ELSE AnomalyFeaturesOfIssues(
             issues,
             GroupSizes([i \in 1 .. Len(issues) |-> DayIndex(issues[i].days_ago)]),
             GroupSizes([i \in 1 .. Len(issues) |-> WeekIndex(issues[i].days_ago)]),
             [i \in 1 .. Len(issues) - 1 |->
                 24 * TimeDiffs(SortedDaysAgo(issues))[i]])

NoFeatureData ==
    [loaded |-> FALSE, issues |-> <<>>,
     row |-> [total_issues |-> 0, last_issue_date |-> NoDateColumn],
     chained_inplace |-> FALSE]
NoFeatOut == [op |-> "none"]

FeatIdle == featOut.op = "none"

\* the loader returns issues_df and buildings_df
LoadFeatureData ==
    /\ ~fdata.loaded
    /\ fdata' \in FeatureData
    /\ UNCHANGED <<featOut, notFeatures>>

\* engineer.engineer_building_features(issues_df, buildings_df)
EngineerBuildingFeatures ==
    /\ fdata.loaded
    /\ FeatIdle
    /\ featOut' = [op |-> "engineer_building_features",
                   features |-> engineer_building_features(fdata)]
    /\ UNCHANGED <<fdata, notFeatures>>

\* engineer.create_training_dataset(issues_df, buildings_df)
CreateTrainingDataset ==
    /\ fdata.loaded
    /\ FeatIdle
    /\ featOut' = [op |-> "create_training_dataset",
                   features |-> engineer_building_features(fdata),
                   failure_in_window |-> failure_in_window(fdata.issues)]
    /\ UNCHANGED <<fdata, notFeatures>>

\* AnomalyFeatureEngineer.engineer_anomaly_features(issues_df, buildings_df)
EngineerAnomalyFeatures ==
    /\ fdata.loaded
    /\ FeatIdle
    /\ featOut' = [op |-> "engineer_anomaly_features",
                   features |-> engineer_anomaly_features(fdata.issues)]
    /\ UNCHANGED <<fdata, notFeatures>>

\* the scoring loop of the risk handlers for a building that neither the
\* failure_map nor the anomaly_map holds, on a model of the given weights
ScoreUnpredictedBuilding(wf, wa, wr) ==
    /\ fdata.loaded
    /\ FeatIdle
    /\ wf + wa + wr > 0
    /\ featOut' =
         [op |-> "calculate_building_risk",
          frequency_score |->
              HandlerFreqScore(Len(fdata.issues),
                               Len(WithField(fdata.issues, "severity", {4, 5}))),
          risk |->
              calculate_building_risk(
                  RiskModelInit(wf, wa, wr), 0, 0,
                  HandlerFreqScore(Len(fdata.issues),
                                   Len(WithField(fdata.issues, "severity", {4, 5}))),
                  Len(WithField(fdata.issues, "severity", {4, 5})))]
    /\ UNCHANGED <<fdata, notFeatures>>

\* the caller takes the result
FeatReturn ==
    /\ ~FeatIdle
    /\ featOut' = NoFeatOut
    /\ UNCHANGED <<fdata, notFeatures>>

FeaturesNext ==
    \/ LoadFeatureData
    \/ EngineerBuildingFeatures
    \/ CreateTrainingDataset
    \/ EngineerAnomalyFeatures
    \/ \E wf, wa, wr \in 0 .. MaxWeight : ScoreUnpredictedBuilding(wf, wa, wr)
    \/ FeatReturn

----------------------------------------------------------------------------
(* The remaining methods of the two engines: prepare_data and              *)
(* get_feature_importance, and the statistical detectors as methods of the *)
(* anomaly engine.                                                         *)

\* the numeric columns of the frames handed to prepare_data, the target
\* column left out
ColumnSets == { <<"feature">>, <<"days_since_last_issue", "feature">> }

\* FailurePredictionModel.prepare_data: the engine after the call
prepare_data_rescaling(e, columns, has_target) ==
    IF has_target THEN [e EXCEPT !.feature_names = columns, !.scaler = NewScaler]
    ELSE e
prepare_data(e, columns, has_target) ==
    IF has_target THEN [e EXCEPT !.feature_names = columns] ELSE e

\* get_feature_importance: an empty frame for an estimator that has no
\* importances, the error the importances raise, or one row per feature
get_feature_importance(e) ==
    IF e.class = "anomaly"
    THEN [NoOut EXCEPT !.op = "get_feature_importance", !.status = "empty"]
    ELSE IF ~e.model.fitted
    THEN Raised("get_feature_importance", <<>>, "NotFittedError")
    ELSE IF Len(e.feature_names) # 1
    THEN Raised("get_feature_importance", <<>>, "ValueError")
    ELSE [NoOut EXCEPT !.op = "get_feature_importance", !.status = "ok",
                       !.records = e.feature_names]

\* prepare_data(features_df)
EngPrepareData(columns, has_target) ==
    /\ Idle
    /\ eng.status = "ok"
    /\ eng.class = "failure"
    /\ eng' = prepare_data(eng, columns, has_target)
    /\ engOut' = IF has_target
                 THEN [NoOut EXCEPT !.op = "prepare_data", !.status = "ok"]
                 ELSE Raised("prepare_data", <<>>, "ValueError")
    /\ UNCHANGED <<files, saved, notEngine>>

\* get_feature_importance()
EngGetFeatureImportance ==
    /\ Idle
    /\ eng.status = "ok"
    /\ engOut' = get_feature_importance(eng)
    /\ UNCHANGED <<eng, files, saved, notEngine>>

\* detect_spike_anomalies(issues_df, buildings_df) on the anomaly engine
EngDetectSpikeAnomalies(df) ==
    /\ Idle
    /\ eng.status = "ok"
    /\ eng.class = "anomaly"
    /\ engOut' =
         [NoOut EXCEPT
            !.op = "detect_spike_anomalies", !.status = "ok",
            !.records = detect_spike_anomalies(df, buildings_df, window_days_default,
                                               threshold_default).records]
    /\ UNCHANGED <<eng, files, saved, notEngine>>

\* detect_temporal_anomalies(issues_df, buildings_df) on the anomaly engine
EngDetectTemporalAnomalies(df) ==
    /\ Idle
    /\ eng.status = "ok"
    /\ eng.class = "anomaly"
    /\ engOut' =
         [NoOut EXCEPT
            !.op = "detect_temporal_anomalies", !.status = "ok",
            !.records = detect_temporal_anomalies(df, buildings_df).records]
    /\ UNCHANGED <<eng, files, saved, notEngine>>

\* the batches of one row
SingleRows == { X \in Batches : Len(X) = 1 }

\* every method of the two engines
LifecycleNext ==
    \/ \E selector \in Selectors : EngConstruct("anomaly", selector)
    \/ \E selector \in Selectors : EngConstruct("failure", selector)
    \/ \E D \in TrainSets : EngTrain(D)
    \/ \E X \in SingleRows : EngDetectAnomalies(X)
    \/ \E X \in SingleRows : EngPredictFailureRisk(X)
    \/ \E X \in SingleRows : EngPredictTimeWindow(X, DaysColumn(X))
    \/ \E columns \in ColumnSets, has_target \in BOOLEAN :
          EngPrepareData(columns, has_target)
    \/ EngGetFeatureImportance
    \/ \E df \in Others("A") : EngDetectSpikeAnomalies(df)
    \/ \E df \in Others("A") : EngDetectTemporalAnomalies(df)
    \/ EngSave
    \/ EngLoad
    \/ RemoveScalerFile
    \/ EngReturn

----------------------------------------------------------------------------
(* Specifications                                                          *)

RiskIdle ==
    /\ rm = NoRiskModel
    /\ rmCall = NoRiskCall

EngineIdle ==
    /\ eng = NoEngine
    /\ files = NoFiles
    /\ saved = NoSaved
    /\ engOut = NoOut

ApiDown ==
    /\ disk = NoDisk
    /\ api = NoApi
    /\ campus = <<>>
    /\ resp = NoResp

DetectIdle ==
    /\ issues_df = <<>>
    /\ detOut = NoDetOut
    /\ tasks = NoTasks

ReportIdle ==
    /\ survey = NoSurvey
    /\ repOut = NoRepOut

FeaturesIdle ==
    /\ fdata = NoFeatureData
    /\ featOut = NoFeatOut

Init ==
    RiskIdle /\ EngineIdle /\ ApiDown /\ DetectIdle /\ ReportIdle /\ FeaturesIdle

\* the risk model alone
SpecRisk == Init /\ [][RiskNext]_vars
\* one engine instance, its files and its calls
SpecEngine == Init /\ [][EngineNext]_vars
\* the service, its handlers and the risk training pipeline
SpecApi == Init /\ [][ApiNext]_vars
\* the statistical detectors on an issue table
SpecDetect == Init /\ [][DetectNext]_vars
\* the detectors on a table and on its buildings one by one
SpecTasks == Init /\ [][TasksNext]_vars
\* the rollups over a list of building risks
SpecReport == Init /\ [][ReportNext]_vars
\* every method of the two engines
SpecLifecycle == Init /\ [][LifecycleNext]_vars
\* the time window predictions of a failure engine
SpecTimeWindow == Init /\ [][TimeWindowNext]_vars
\* feature engineering for one building
SpecFeatures == Init /\ [][FeaturesNext]_vars
\* the risk model called twice, an input raised in between
SpecMonotone == Init /\ [][MonotoneNext]_vars

----------------------------------------------------------------------------
(* Claims about RiskProbabilityModel                                       *)

\* C1: on a model built from non-negative weights that are not all zero,
\* every calculate_building_risk call, whatever its component inputs
\* (below 0 and above 1 included), returns the three inputs clamped to
\* [0,1], a composite_score and a risk_probability in [0,1], the risk_level
\* that the threshold table gives for the returned risk_probability, and
\* the action label that belongs to that level.
C1_RiskResultWellFormed ==
    (rm.status = "ok" /\ rmCall.called) =>
        LET r == rmCall.result
            clamped(x) == IF x < 0 THEN 0 ELSE IF x > Scale THEN Scale ELSE x
        IN  /\ r.failure_component = clamped(rmCall.failure_probability)
            /\ r.anomaly_component = clamped(rmCall.anomaly_probability)
            /\ r.recency_component = clamped(rmCall.issue_frequency_score)
            /\ RatLe(RatInt(0), r.composite_score)
            /\ RatLe(r.composite_score, RatInt(Scale))
            /\ r.risk_probability >= 0
            /\ r.risk_probability <= Scale
            /\ (r.risk_level = "CRITICAL") <=> (r.risk_probability >= 800)
            /\ (r.risk_level = "HIGH") <=>
                   (r.risk_probability >= 600 /\ r.risk_probability < 800)
            /\ (r.risk_level = "MEDIUM") <=>
                   (r.risk_probability >= 400 /\ r.risk_probability < 600)
            /\ (r.risk_level = "LOW") <=> (r.risk_probability < 400)
            /\ <<r.risk_level, r.action>> \in
                   { <<"CRITICAL", "IMMEDIATE INTERVENTION REQUIRED">>,
                     <<"HIGH", "URGENT MAINTENANCE REQUIRED">>,
                     <<"MEDIUM", "SCHEDULE MAINTENANCE">>,
                     <<"LOW", "ROUTINE MAINTENANCE">> }

\* a call with one input above 1 and one below 0 that ends CRITICAL
C1_Witness ==
    /\ rm.status = "ok"
    /\ rmCall.called
    /\ rmCall.failure_probability > Scale
    /\ rmCall.anomaly_probability < 0
    /\ rmCall.result.risk_level = "CRITICAL"

\* C2: for every triple of non-negative weights, all zero included, the
\* construction completes and the stored weights sum to 1.
C2_ConstructionNormalizes ==
    (rm.status # "none") =>
        /\ rm.status = "ok"
        /\ RatEq(RatAdd(RatAdd(rm.failure_weight, rm.anomaly_weight),
                        rm.recency_weight), RatInt(1))

----------------------------------------------------------------------------
(* Claims about the engines                                                *)

InferenceOps == {"detect_anomalies", "predict_failure_risk", "predict_time_window"}

\* C3: an inference call on an instance that was constructed but neither
\* trained nor successfully loaded fails and returns no labels, scores or
\* probabilities; on the anomaly engine the failure is the
\* 'Model not trained yet' guard of detect_anomalies.
C3_UntrainedInferenceFailsByGuard ==
    (engOut.op \in InferenceOps /\ eng.status = "ok" /\ ~eng.ready) =>
        /\ engOut.status = "error"
        /\ engOut.predictions = <<>>
        /\ engOut.scores = <<>>
        /\ engOut.probabilities = <<>>
        /\ engOut.records = <<>>
        /\ (eng.class = "anomaly") => (engOut.error = "Model not trained yet")

\* C5: an instance whose estimator state comes from load_model scores a
\* batch exactly as the instance that wrote the files scored it when it
\* saved: the same outcome, labels, scores and probabilities, for the
\* anomaly engine and for the failure-prediction engine.
C5_SaveLoadRoundTrip ==
    (eng.status = "ok" /\ eng.origin = "load"
        /\ engOut.op \in {"detect_anomalies", "predict_failure_risk"}) =>
        LET saver == [eng EXCEPT !.model = saved.model, !.scaler = saved.scaler]
            before == IF eng.class = "anomaly"
                      THEN detect_anomalies(saver, engOut.X)
                      ELSE predict_failure_risk(saver, engOut.X)
        IN  /\ saved.valid
            /\ engOut.status = before.status
            /\ engOut.predictions = before.predictions
            /\ engOut.scores = before.scores
            /\ engOut.probabilities = before.probabilities

\* a loaded anomaly engine, trained before the save, has scored a batch
C5_Witness ==
    /\ eng.origin = "load"
    /\ eng.class = "anomaly"
    /\ eng.feature_names = <<>>
    /\ saved.valid /\ saved.scaler.fitted /\ saved.scaler.mean > 0
    /\ engOut.op = "detect_anomalies"
    /\ engOut.status = "ok"
    /\ Len(engOut.X) > 1

\* C6: detect_anomalies maps the batch's scores to probabilities
\* 1 - (score - min)/(max - min): each lies in [0,1], a strictly lower
\* score has a strictly higher probability, the minimum score gets 1 and
\* the maximum score 0, and a batch whose scores are all equal (a batch of
\* one sample included) gets probability 0 for every sample.
C6_ProbabilityRescaling ==
    (engOut.op = "detect_anomalies" /\ engOut.status = "ok") =>
        LET sc == engOut.scores
            pr == engOut.probabilities
            I == 1 .. Len(sc)
            lo == SeqMin(sc)
            hi == SeqMax(sc)
        IN  /\ Len(pr) = Len(sc)
            /\ Len(sc) = Len(engOut.X)
            /\ \A i \in I :
                  /\ pr[i].den > 0
                  /\ RatLe(RatInt(0), pr[i])
                  /\ RatLe(pr[i], RatInt(1))
            /\ \A i, j \in I : (sc[i] < sc[j]) => RatLt(pr[j], pr[i])
            /\ (hi > lo) =>
                  \A i \in I :
                     /\ RatEq(pr[i], Rat(hi - sc[i], hi - lo))
                     /\ (sc[i] = lo) => RatEq(pr[i], RatInt(1))
                     /\ (sc[i] = hi) => RatEq(pr[i], RatInt(0))
            /\ (hi = lo) => \A i \in I : RatEq(pr[i], RatInt(0))

\* a batch with three different scores has been rescaled
C6_Witness ==
    /\ engOut.op = "detect_anomalies"
    /\ engOut.status = "ok"
    /\ \E i, j, k \in 1 .. Len(engOut.scores) :
          /\ engOut.scores[i] < engOut.scores[j]
          /\ engOut.scores[j] < engOut.scores[k]

----------------------------------------------------------------------------
(* Claims about the risk scoring passes                                    *)

RiskPasses ==
    {"get_risk_scores", "get_priority_buildings", "train_risk_probability_model"}

\* the failure-prediction model a pass would use is trained and loaded
FailureModelAvailable ==
    IF resp.op = "train_risk_probability_model"
    THEN /\ disk.failure.model.present /\ disk.failure.scaler.present
         /\ disk.failure.model.obj.fitted /\ disk.failure.scaler.obj.fitted
    ELSE api.model.model.fitted /\ api.model.scaler.fitted

\* the anomaly models a pass would use are trained and loaded
AnomalyModelsAvailable ==
    IF resp.op = "train_risk_probability_model"
    THEN /\ disk.anomaly_if.model.present /\ disk.anomaly_if.scaler.present
         /\ disk.anomaly_if.model.obj.fitted /\ disk.anomaly_if.scaler.obj.fitted
    ELSE /\ api.anomaly_if.model.fitted /\ api.anomaly_if.scaler.fitted
         /\ api.anomaly_svm.model.fitted /\ api.anomaly_svm.scaler.fitted

\* C4: a risk scoring pass (GET /api/ml/risk, GET /api/ml/risk/priority,
\* the risk training pipeline) that runs while the failure-prediction
\* model or an anomaly model is unavailable ends in an explicit failure: it
\* never ends in a success whose scores carry 0.0 for that model's
\* component for every building.
C4_UnavailableModelFailsExplicitly ==
    (resp.op \in RiskPasses /\ resp.status = "success") =>
        /\ FailureModelAvailable
           \/ \E i \in 1 .. Len(resp.risk_scores) :
                  resp.risk_scores[i].risk.failure_component # 0
        /\ AnomalyModelsAvailable
           \/ \E i \in 1 .. Len(resp.risk_scores) :
                  resp.risk_scores[i].risk.anomaly_component # 0

----------------------------------------------------------------------------
(* Claims about the statistical detectors                                  *)

IssueTimes(b) == CreatedAt(BuildingIssues(issues_df, b))

\* the days from the first to the last observed issue day of a building
CalendarDays(b) ==
    IF IssueTimes(b) = <<>> THEN 0
    ELSE DayOf(SeqMax(IssueTimes(b))) - DayOf(SeqMin(IssueTimes(b))) + 1

\* the records of a call for one building
RecordsOf(b) ==
    { detOut.records[j] : j \in { i \in 1 .. Len(detOut.records) :
                                    detOut.records[i].building_id = b } }

BuildingSet == { buildings_df[k] : k \in 1 .. Len(buildings_df) }

\* C7: detect_spike_anomalies evaluates every building whose daily series,
\* first to last observed issue day, has at least 2 * window_days days, and
\* excludes a building only when its series is shorter than that.
C7_EvaluatedIffSeriesLongEnough ==
    detOut.op = "detect_spike_anomalies" =>
        \A b \in BuildingSet :
            b \in detOut.evaluated <=> CalendarDays(b) >= 2 * detOut.window_days

C9_TemporalRecordIffShortGap ==
    detOut.op = "detect_temporal_anomalies" =>
        /\ detOut.status = "ok"
        /\ \A b \in BuildingSet :
            LET sorted == SortAsc(IssueTimes(b))
                n == Len(sorted) - 1
                gap(k) == (sorted[k + 1] - sorted[k]) \div TicksPerHour
                S == SeqSum([k \in 1 .. n |-> gap(k)])
                Q == SeqSum([k \in 1 .. n |-> gap(k) * gap(k)])
                spread == n * Q - S * S
                dev(k) == n * gap(k) - S
                flagged(k) ==
                    spread # 0 /\ dev(k) < 0 /\ dev(k) * dev(k) > 4 * spread
                recs(k) == { r \in RecordsOf(b) : r.time_index = k - 1 }
            IN  IF Len(sorted) < 5
                THEN RecordsOf(b) = {}
                ELSE /\ \A r \in RecordsOf(b) : \E k \in 1 .. n : r \in recs(k)
                     /\ \A k \in 1 .. n :
                           /\ recs(k) # {} <=> flagged(k)
                           /\ \A r \in recs(k) :
                                 /\ r.anomaly_type = "temporal_clustering"
                                 /\ r.inter_arrival_hours = gap(k)
                                 /\ r.severity =
                                      IF dev(k) * dev(k) > 9 * spread
                                      THEN "HIGH" ELSE "MEDIUM"
                     /\ (\A k \in 1 .. n : gap(k) = gap(1))
                           => RecordsOf(b) = {}

\* a call flagged a gap as HIGH
C9_Witness ==
    /\ detOut.op = "detect_temporal_anomalies"
    /\ \E j \in 1 .. Len(detOut.records) : detOut.records[j].severity = "HIGH"

\* the same detector call on the issues of one building alone
SoloCall(b) ==
    IF detOut.op = "detect_spike_anomalies"
    THEN detect_spike_anomalies(BuildingIssues(issues_df, b), <<b>>,
                                detOut.window_days, detOut.threshold)
    ELSE detect_temporal_anomalies(BuildingIssues(issues_df, b), <<b>>)

\* fewer observations than the detector's window requires
InsufficientHistory(b) ==
    IF detOut.op = "detect_spike_anomalies"
    THEN \/ Len(IssueTimes(b)) < detOut.window_days
         \/ CalendarDays(b) < 2 * detOut.window_days
    ELSE Len(IssueTimes(b)) < 5

\* C10: in detect_spike_anomalies and detect_temporal_anomalies a building
\* with insufficient history, or a day or gap whose standard deviation is
\* zero or undefined, contributes no record and raises no error, and does
\* not change the outcome for any other building: the call returns
\* normally with exactly the records each building gets on its own.
C10_DegenerateBuildingsAreSkipped ==
    detOut.op # "none" =>
        /\ detOut.status = "ok"
        /\ detOut.records =
              Flatten([k \in 1 .. Len(buildings_df) |->
                          SoloCall(buildings_df[k]).records])
        /\ \A b \in BuildingSet : InsufficientHistory(b) => RecordsOf(b) = {}
        /\ \A j \in 1 .. Len(detOut.records) :
              detOut.records[j].z_score.sq.den # 0

\* a call skipped one building for its history and reported on the other
C10_Witness ==
    /\ detOut.op # "none"
    /\ detOut.status = "ok"
    /\ detOut.records # <<>>
    /\ \E b \in BuildingSet : InsufficientHistory(b) /\ IssueTimes(b) # <<>>
    /\ \E b \in BuildingSet : IssueTimes(b) = <<>> \/ RecordsOf(b) # {}

----------------------------------------------------------------------------
(* Claims about construction and repeated calls                            *)

\* the selectors the class of the instance at hand supports
SupportedSelectors ==
    IF eng.class = "anomaly" THEN AnomalyAlgorithms ELSE FailureModelTypes

\* C11: constructing either engine with a selector outside its supported
\* set fails at construction with ValueError, so every instance obtained
\* has a supported selector and an estimator: none has the absent (None)
\* estimator.
C11_InvalidSelectorFailsAtConstruction ==
    (eng.class # "none") =>
        /\ (eng.selector \notin SupportedSelectors) =>
              /\ eng.status = "ValueError"
              /\ eng.model = NoEstimator
              /\ ~eng.ready
        /\ (eng.status = "ok") =>
              /\ eng.selector \in SupportedSelectors
              /\ eng.model.kind # "None"

\* the anomaly engine was asked for 'xgboost', after an instance of it had
\* been trained and saved
C11_Witness ==
    /\ eng.class = "anomaly"
    /\ eng.selector = "xgboost"
    /\ eng.status = "ValueError"
    /\ saved.valid

----------------------------------------------------------------------------
(* Claims about the ensemble and the frequency score                       *)

\* C13: in every successful get_anomalies response, the anomaly
\* probability of a building is exactly the arithmetic mean of the two
\* detectors' probabilities for it, so it lies in [0,1] and between the
\* two; the mean of 0.9 and 0.3 is 0.6.
C13_EnsembleIsMean ==
    /\ RatEq(EnsembleProbability(Rat(9, 10), Rat(3, 10)), Rat(6, 10))
    /\ (resp.op = "get_anomalies" /\ resp.status = "success") =>
          \A i \in 1 .. Len(resp.anomalies) :
             LET r == resp.anomalies[i]
                 a == r.if_probability
                 b == r.svm_probability
                 e == r.anomaly_probability
             IN  /\ e.den > 0
                 /\ RatEq(RatMulInt(e, 2), RatAdd(a, b))
                 /\ RatLe(RatInt(0), e) /\ RatLe(e, RatInt(1))
                 /\ RatLe(a, e) \/ RatLe(b, e)
                 /\ RatLe(e, a) \/ RatLe(e, b)

\* a response with a building the two detectors give different
\* probabilities, neither of them 0 or 1
C13_Witness ==
    /\ resp.op = "get_anomalies"
    /\ resp.status = "success"
    /\ \E i \in 1 .. Len(resp.anomalies) :
          LET r == resp.anomalies[i] IN
          /\ ~RatEq(r.if_probability, r.svm_probability)
          /\ RatLt(RatInt(0), r.svm_probability)
          /\ RatLt(r.if_probability, RatInt(1))

\* the square-root score with the critical-ratio boost, in Scale units:
\* base is the floor of Scale * sqrt(n) / sqrt(100)
SqrtFrequencyScore(n, c) ==
    IF n = 0 THEN 0
    ELSE LET base == CHOOSE b \in 0 .. 4 * Scale :
                        /\ 100 * b * b <= n * Scale * Scale
                        /\ 100 * (b + 1) * (b + 1) > n * Scale * Scale
             boost == Min(200, (400 * c) \div n)
         IN  Min(Scale, Min(Scale, base) + boost)

\* C14: the issue-frequency score a risk scoring pass gives a building
\* with n issues, c of them of severity >= 4, is
\* min(1, min(1, sqrt(n)/sqrt(100)) + min(0.2, 0.4*c/n)) for n > 0 and 0
\* for n = 0; it lies in [0,1]; 50 issues with none critical score
\* sqrt(50)/10, and 100 issues, all critical, score exactly 1.0.
C14_FrequencyScoreIsSqrtWithBoost ==
    /\ SqrtFrequencyScore(50, 0) = 707
    /\ SqrtFrequencyScore(100, 100) = Scale
    /\ (resp.op \in RiskPasses /\ resp.status = "success") =>
          \A i \in 1 .. Len(resp.risk_scores) :
             LET r == resp.risk_scores[i]
                 b == campus[r.building_id]
             IN  /\ r.risk.recency_component >= 0
                 /\ r.risk.recency_component <= Scale
                 /\ r.risk.recency_component =
                       SqrtFrequencyScore(b.num_issues, b.critical)

----------------------------------------------------------------------------
(* Claims about the rollups                                                *)

\* the sort key of an entry: (risk_probability, recent_critical_issues)
KeyGreater(x, y) ==
    \/ x.risk.risk_probability > y.risk.risk_probability
    \/ /\ x.risk.risk_probability = y.risk.risk_probability
       /\ x.risk.recent_critical_issues > y.risk.recent_critical_issues

KeyEqual(x, y) == ~KeyGreater(x, y) /\ ~KeyGreater(y, x)

\* the position in list q of the entry of building b
PositionOf(q, b) == CHOOSE i \in 1 .. Len(q) : q[i].building_id = b

\* the list holds entries of q, none twice, in non-increasing key order,
\* entries of equal key in their order in q
PriorityOrdered(r, q) ==
    /\ \A k \in 1 .. Len(r) : \E i \in 1 .. Len(q) : q[i] = r[k]
    /\ \A k, l \in 1 .. Len(r) :
          (k < l) =>
             /\ r[k].building_id # r[l].building_id
             /\ ~KeyGreater(r[l], r[k])
             /\ KeyEqual(r[k], r[l]) =>
                   PositionOf(q, r[k].building_id) < PositionOf(q, r[l].building_id)

\* every entry of q that the list leaves out would sort after all of it
LeavesOutTheLast(r, q) ==
    \A i \in 1 .. Len(q), k \in 1 .. Len(r) :
       (\A l \in 1 .. Len(r) : r[l] # q[i]) =>
          \/ KeyGreater(r[k], q[i])
          \/ KeyEqual(r[k], q[i]) /\ PositionOf(q, r[k].building_id) < i

\* C15: prioritize_buildings(building_risks, top_n), top_n >= 0, returns
\* the first min(top_n, len) entries of a permutation of the input that is
\* non-increasing in (risk_probability, recent_critical_issues) compared
\* lexicographically; entries with equal pairs keep their input order, no
\* entry is duplicated or invented, and the input list is as it was.
C15_PrioritizeIsStableTopN ==
    (repOut.op = "prioritize_buildings") =>
        /\ Len(repOut.result) = Min(repOut.top_n, Len(repOut.input))
        /\ PriorityOrdered(repOut.result, repOut.input)
        /\ LeavesOutTheLast(repOut.result, repOut.input)
        /\ survey.building_risks = repOut.input

\* a call that cuts the list, on entries that tie on the probability with
\* different counts of critical issues and on entries that tie on both
C15_Witness ==
    /\ repOut.op = "prioritize_buildings"
    /\ repOut.top_n < Len(repOut.input)
    /\ Len(repOut.result) > 2
    /\ \E k, l \in 1 .. Len(repOut.result) :
          k < l /\ KeyEqual(repOut.result[k], repOut.result[l])
    /\ \E k, l \in 1 .. Len(repOut.input) :
          /\ k < l
          /\ KeyGreater(repOut.input[l], repOut.input[k])
          /\ repOut.input[l].risk.risk_probability
                = repOut.input[k].risk.risk_probability

\* the number of entries of q at a level
CountAt(q, level) ==
    Cardinality({ i \in 1 .. Len(q) : q[i].risk.risk_level = level })

\* C19: in every generate_risk_report report, the four risk_distribution
\* counts sum to summary.total_buildings; summary.critical_buildings and
\* high_risk_buildings are the CRITICAL and HIGH counts;
\* top_priority_buildings holds min(5, number of buildings) entries in
\* priority order; high_risk_categories are exactly the categories with
\* score >= 0.6; at most 5 recommendations are returned; an empty list
\* gives a report with zero counts.
C19_ReportCountsAgree ==
    (repOut.op = "generate_risk_report") =>
        LET rep == repOut.result
            q == repOut.input
            d == rep.risk_distribution
        IN  /\ rep.summary.total_buildings = Len(q)
            /\ d["CRITICAL"] + d["HIGH"] + d["MEDIUM"] + d["LOW"]
                  = rep.summary.total_buildings
            /\ \A level \in Levels : d[level] = CountAt(q, level)
            /\ rep.summary.critical_buildings = d["CRITICAL"]
            /\ rep.summary.high_risk_buildings = d["HIGH"]
            /\ Len(rep.top_priority_buildings) = Min(5, Len(q))
            /\ PriorityOrdered(rep.top_priority_buildings, q)
            /\ LeavesOutTheLast(rep.top_priority_buildings, q)
            /\ { rep.high_risk_categories[i] :
                    i \in 1 .. Len(rep.high_risk_categories) }
                  = { repOut.category_risks[i].category :
                        i \in { j \in 1 .. Len(repOut.category_risks) :
                                  repOut.category_risks[j].category_risk_score
                                     >= 600 } }
            /\ Len(rep.recommendations) <= 5
            /\ (q = <<>>) =>
                  /\ rep.summary.total_buildings = 0
                  /\ rep.summary.critical_buildings = 0
                  /\ rep.summary.high_risk_buildings = 0
                  /\ RatEq(rep.summary.avg_risk_probability, RatInt(0))
                  /\ \A level \in Levels : d[level] = 0
                  /\ rep.top_priority_buildings = <<>>

\* a report over more than five buildings, critical and high ones among
\* them, with a high-risk category
C19_Witness ==
    /\ repOut.op = "generate_risk_report"
    /\ Len(repOut.input) > 5
    /\ repOut.result.risk_distribution["CRITICAL"] > 1
    /\ repOut.result.risk_distribution["HIGH"] > 1
    /\ repOut.result.risk_distribution["LOW"] > 0
    /\ Len(repOut.result.high_risk_categories) = 1
    /\ Len(repOut.category_risks) = 3
    /\ Len(repOut.result.recommendations) = 4

\* the rows of the table grouped under a zone name
MembersOf(table, zone) ==
    { i \in 1 .. Len(table.rows) :
        zone = (IF table.has_zone THEN table.rows[i].zone
                ELSE IF table.has_type THEN table.rows[i].building_type
                ELSE "Unknown") }

\* the members of a zone that have an entry in the list
ScoredMembersOf(table, zone, q) ==
    { i \in MembersOf(table, zone) :
        \E k \in 1 .. Len(q) : q[k].building_id = table.rows[i].id }

\* C20: calculate_zone_risk emits one row per zone (zone field, else
\* building_type) that has at least one member with a risk score; in each
\* row building_count is the number of members whose risk probabilities
\* were aggregated, avg_risk_probability <= max_risk_probability,
\* critical_buildings is the number of those members at or above the
\* CRITICAL threshold (so at most building_count), and zone_risk_level is
\* the threshold level of the average.
C20_ZoneRowsAggregateScoredMembers ==
    (repOut.op = "calculate_zone_risk") =>
        LET rows == repOut.result
            table == repOut.table
            q == repOut.input
            prob(i) == q[PositionOf(q, table.rows[i].id)].risk.risk_probability
        IN  /\ \A k, l \in 1 .. Len(rows) : (k # l) => rows[k].zone # rows[l].zone
            /\ { rows[k].zone : k \in 1 .. Len(rows) }
                  = { z \in ZoneNames \cup {"Academic", "Residential", "Unknown"} :
                        ScoredMembersOf(table, z, q) # {} }
            /\ \A k \in 1 .. Len(rows) :
                  LET row == rows[k]
                      scored == ScoredMembersOf(table, row.zone, q)
                  IN  /\ row.building_count = Cardinality(scored)
                      /\ RatLe(row.avg_risk_probability,
                               RatInt(row.max_risk_probability))
                      /\ \E i \in scored : prob(i) = row.max_risk_probability
                      /\ \A i \in scored : prob(i) <= row.max_risk_probability
                      /\ row.critical_buildings =
                            Cardinality({ i \in scored : prob(i) >= 800 })
                      /\ row.critical_buildings <= row.building_count
                      /\ row.zone_risk_level \in Levels
                      /\ (row.zone_risk_level = "CRITICAL") <=>
                            RatLe(RatInt(800), row.avg_risk_probability)
                      /\ (row.zone_risk_level = "HIGH") <=>
                            /\ RatLe(RatInt(600), row.avg_risk_probability)
                            /\ RatLt(row.avg_risk_probability, RatInt(800))
                      /\ (row.zone_risk_level = "MEDIUM") <=>
                            /\ RatLe(RatInt(400), row.avg_risk_probability)
                            /\ RatLt(row.avg_risk_probability, RatInt(600))


\* the features of engineer_building_features that are computed from the
\* building's issues are all 0
IssueFeaturesZero(f) ==
    /\ f.open_issues_count = 0
    /\ RatEq(f.high_severity_ratio, RatInt(0))
    /\ \A c \in Categories : f.category_issue_count[c] = 0
    /\ RatEq(f.avg_resolution_time_days, RatInt(0))
    /\ RatEq(f.recency_weighted_issue_score, RatInt(0))
    /\ f.issue_clustering_score = Zero
    /\ \A w \in 1 .. Len(time_windows) :
         /\ f.issues_last[w] = 0
         /\ RatEq(f.avg_severity_last[w], RatInt(0))

\* the two features that engineer_building_features takes from the
\* building's row are 0
RowFeaturesZero(f) ==
    /\ RatEq(f.avg_issues_per_month, RatInt(0))
    /\ f.days_since_last_issue.column => f.days_since_last_issue.value = 0

\* the five anomaly features are 0
AnomalyFeaturesZero(f) ==
    /\ f.issue_frequency_variance = Zero
    /\ f.issue_severity_variance = Zero
    /\ f.inter_arrival_variance = Zero
    /\ f.daily_issue_std = Zero
    /\ f.weekly_issue_coefficient_variation = Zero

\* what holds of every call for a building with no issues, whichever way
\* the features taken from the building's row are treated
ZeroIssueOutcome(row_features_zero) ==
    /\ featOut.op \in {"engineer_building_features", "create_training_dataset"} =>
         /\ IssueFeaturesZero(featOut.features)
         /\ row_features_zero
    /\ featOut.op = "create_training_dataset" => featOut.failure_in_window = 0
    /\ featOut.op = "engineer_anomaly_features" =>
         AnomalyFeaturesZero(featOut.features)
    /\ featOut.op = "calculate_building_risk" =>
         /\ featOut.frequency_score = 0
         /\ featOut.risk.risk_level = "LOW"

\* C16 as stated: for a building with no issues in the issue table every
\* engineered failure feature and every anomaly feature is 0, the
\* failure_in_window target is 0, the frequency score is 0, and
\* calculate_building_risk with zero failure and anomaly components gives
\* LOW under every valid weight configuration.
C16_ZeroIssueAllZero ==
    (fdata.loaded /\ fdata.issues = <<>> /\ ~FeatIdle) =>
        ZeroIssueOutcome(
            featOut.op \in {"engineer_building_features", "create_training_dataset"}
                => RowFeaturesZero(featOut.features))

\* C16 amended: for a building with no issues in the issue table every
\* engineered failure feature computed from the issue table and every
\* anomaly feature is 0, while avg_issues_per_month is the row's
\* total_issues / 12 and days_since_last_issue is the row's days since
\* last_issue_date, 999 or 0 for a missing date; the failure_in_window
\* target is 0, the frequency score is 0, and calculate_building_risk with
\* zero failure and anomaly components gives LOW under every valid weight
\* configuration.
C16_ZeroIssueFeatures ==
    (fdata.loaded /\ fdata.issues = <<>> /\ ~FeatIdle) =>
        ZeroIssueOutcome(
            featOut.op \in {"engineer_building_features", "create_training_dataset"} =>
                /\ RatEq(featOut.features.avg_issues_per_month,
                         Rat(fdata.row.total_issues, 12))
                /\ featOut.features.days_since_last_issue.column =
                       fdata.row.last_issue_date.column
                /\ (fdata.row.last_issue_date.column /\ fdata.row.last_issue_date.none) =>
                       featOut.features.days_since_last_issue.value
                           \in {missing_days_since_last, 0}
                /\ (fdata.row.last_issue_date.column /\ ~fdata.row.last_issue_date.none) =>
                       featOut.features.days_since_last_issue.value
                           = fdata.row.last_issue_date.days)

\* a training row of a building without issues whose row counts 24 issues
\* and has no last issue date
C16_Witness ==
    /\ fdata.loaded
    /\ fdata.issues = <<>>
    /\ featOut.op = "create_training_dataset"
    /\ fdata.row.total_issues = 24
    /\ fdata.row.last_issue_date = NoneDate
    /\ featOut.features.days_since_last_issue.value = missing_days_since_last
    /\ featOut.failure_in_window = 0


\* the threshold level of a failure probability
ThresholdLevel(p, level) ==
    /\ p >= 800 => level = "CRITICAL"
    /\ (p >= 600 /\ p < 800) => level = "HIGH"
    /\ (p >= 400 /\ p < 600) => level = "MEDIUM"
    /\ p < 400 => level = "LOW"

\* confidence = |p - 0.5| * 2 clamped to [0, 1]
ConfidenceOf(p, confidence) ==
    /\ confidence >= 0
    /\ confidence <= Scale
    /\ 2 * Abs(p - 500) <= Scale => confidence = 2 * Abs(p - 500)
    /\ 2 * Abs(p - 500) > Scale => confidence = Scale

\* the estimates of the rows with the same days since the last issue, taken
\* from the rows with at least min_days, never increase with the probability
EstimateFallsWithProbability(min_days) ==
    \A i, j \in 1 .. Len(engOut.records) :
        (/\ engOut.days_since_last[i] = engOut.days_since_last[j]
         /\ engOut.days_since_last[i] >= min_days
         /\ engOut.records[i].failure_probability
                <= engOut.records[j].failure_probability)
        => engOut.records[j].estimated_days_to_failure
                <= engOut.records[i].estimated_days_to_failure

\* C17 as stated: every record of predict_time_window has
\* estimated_days_to_failure min(0.5*d, 30) for probability > 0.7,
\* min(0.7*d, 45) for 0.5 < probability <= 0.7 and min(d, 60) otherwise,
\* so for a fixed d the estimate never increases with the probability; its
\* level is the threshold level of the probability and its confidence is
\* |p - 0.5| * 2 clamped to [0, 1].
C17_TimeWindowHeuristic ==
    (engOut.op = "predict_time_window" /\ engOut.status = "ok") =>
        /\ \A i \in 1 .. Len(engOut.records) :
             LET r == engOut.records[i]
                 d == engOut.days_since_last[i]
             IN  /\ r.failure_probability > 700 =>
                        2 * r.estimated_days_to_failure = Min(d, 60)
                 /\ (r.failure_probability > 500 /\ r.failure_probability <= 700) =>
                        10 * r.estimated_days_to_failure = Min(7 * d, 450)
                 /\ r.failure_probability <= 500 =>
                        r.estimated_days_to_failure = Min(d, 60)
                 /\ ThresholdLevel(r.failure_probability, r.failure_risk_level)
                 /\ ConfidenceOf(r.failure_probability, r.confidence)
        /\ EstimateFallsWithProbability(-3)

\* x with its fraction dropped is k, for x = num / den with den > 0
Truncates(num, den, k) ==
    /\ num >= 0 => (k * den <= num /\ num < (k + 1) * den)
    /\ num < 0 => (k * den >= num /\ num > (k - 1) * den)

\* estimate is min(int(num / den), cap)
TruncatedMin(num, den, cap, estimate) ==
    /\ estimate <= cap
    /\ estimate < cap => Truncates(num, den, estimate)
    /\ estimate = cap => num >= cap * den

\* C17 amended: every record of predict_time_window has
\* estimated_days_to_failure min(int(0.5*d), 30) for probability > 0.7,
\* min(int(0.7*d), 45) for 0.5 < probability <= 0.7 and min(int(d), 60)
\* otherwise, int dropping the fraction, so for a fixed d >= 0 the estimate
\* never increases with the probability; its level is the threshold level
\* of the probability and its confidence is |p - 0.5| * 2 clamped to [0, 1].
C17_TimeWindowHeuristicTruncated ==
    (engOut.op = "predict_time_window" /\ engOut.status = "ok") =>
        /\ Len(engOut.records) = Len(engOut.X)
        /\ \A i \in 1 .. Len(engOut.records) :
             LET r == engOut.records[i]
                 d == engOut.days_since_last[i]
             IN  /\ r.failure_probability = engOut.probabilities[i]
                 /\ r.failure_probability > 700 =>
                        TruncatedMin(5 * d, 10, 30, r.estimated_days_to_failure)
                 /\ (r.failure_probability > 500 /\ r.failure_probability <= 700) =>
                        TruncatedMin(7 * d, 10, 45, r.estimated_days_to_failure)
                 /\ r.failure_probability <= 500 =>
                        r.estimated_days_to_failure = Min(d, 60)
                 /\ ThresholdLevel(r.failure_probability, r.failure_risk_level)
                 /\ ConfidenceOf(r.failure_probability, r.confidence)
        /\ EstimateFallsWithProbability(0)

\* a call with two rows three days after their last issue, one of
\* probability above 0.7 estimated at 1 day and one of probability between
\* 0.5 and 0.7 estimated at 2 days
C17_Witness ==
    /\ engOut.op = "predict_time_window"
    /\ engOut.status = "ok"
    /\ \E i, j \in 1 .. Len(engOut.records) :
          /\ engOut.days_since_last[i] = 3
          /\ engOut.days_since_last[j] = 3
          /\ engOut.records[i].failure_probability > 700
          /\ engOut.records[i].estimated_days_to_failure = 1
          /\ engOut.records[j].failure_probability > 500
          /\ engOut.records[j].failure_probability <= 700
          /\ engOut.records[j].estimated_days_to_failure = 2


\* the records among q that belong to building b, in the order of q
RecordsFor(q, b) ==
    LET ofBuilding(r) == r.building_id = b IN SelectSeq(q, ofBuilding)

\* C18: the records detect_spike_anomalies and detect_temporal_anomalies
\* produce for a building depend only on that building's own issues: the
\* calls made for the buildings one by one, each on its own rows and in
\* any order, succeed as the call on the whole table does, return for each
\* building the records the whole call has for it, and together return the
\* same set of records.
C18_PerBuildingIndependent ==
    ~DetIdle =>
        /\ tasks.failed = (detOut.status = "error")
        /\ \A b \in tasks.done :
              RecordsFor(tasks.gathered, b) = RecordsFor(detOut.records, b)
        /\ \A j \in 1 .. Len(tasks.gathered) :
              tasks.gathered[j].building_id \in tasks.done
        /\ tasks.done = BuildingSet =>
              { tasks.gathered[j] : j \in 1 .. Len(tasks.gathered) }
                  = { detOut.records[j] : j \in 1 .. Len(detOut.records) }

\* both buildings have records, and the calls for them returned in the
\* order opposite to the rows of buildings_df
C18_Witness ==
    /\ ~DetIdle
    /\ tasks.done = BuildingSet
    /\ \A b \in BuildingSet : RecordsFor(detOut.records, b) # <<>>
    /\ tasks.gathered # detOut.records
    /\ tasks.gathered[1].building_id = buildings_df[Len(buildings_df)]


----------------------------------------------------------------------------
(* Claims about the engines' state                                         *)

\* the estimator, the scaler and the feature_names of the engine are the
\* same after the step
EstimatorStateKept ==
    /\ eng'.model = eng.model
    /\ eng'.scaler = eng.scaler
    /\ eng'.feature_names = eng.feature_names

\* a call of one of the given methods is made in the step
Calls(ops) == engOut.op = "none" /\ engOut'.op \in ops

ReadOnlyMethods ==
    {"detect_anomalies", "detect_spike_anomalies", "detect_temporal_anomalies",
     "get_feature_importance", "save_model", "predict_failure_risk",
     "predict_time_window"}

\* the engine is in the trained state after the step
TrainedAfter == eng'.model.fitted /\ eng'.scaler.fitted /\ eng'.ready

SameTrainingRun(e) ==
    \/ ~e.model.fitted /\ ~e.scaler.fitted
    \/ \E D \in TrainSets :
          /\ e.scaler = ScalerFit(D.X)
          /\ e.model = EstimatorFit(NewEstimator(e.model.kind),
                                    ScalerTransform(ScalerFit(D.X), D.X), D.y)

\* C22: after any sequence of train, save_model and load_model calls on an
\* anomaly engine, failed loads included, the engine's estimator and scaler
\* come from the same training run; a failed load_model leaves both as
\* they were before the call; and the API keeps no anomaly detector whose
\* load failed.
C22_FailedLoadLeavesEngineUnchanged ==
    /\ []((eng.status = "ok" /\ eng.class = "anomaly") => SameTrainingRun(eng))
    /\ [][(Calls({"load_model"}) /\ eng.class = "anomaly"
              /\ engOut'.status = "error")
            => (eng'.model = eng.model /\ eng'.scaler = eng.scaler)]_vars
    /\ [](\A detector \in {api.anomaly_if, api.anomaly_svm} :
            detector.status = "ok" => detector.origin = "load")


(* ----------------------------------------------------------------------- *)
(* Claims about the reach of the severities                                *)
(* ----------------------------------------------------------------------- *)

\* PredictionAPI.get_spike_anomalies: the response built from the records
\* of detect_spike_anomalies(issues_df, buildings_df, window_days=7)
get_spike_anomalies(spike_anomalies) ==
    LET of(level) == { j \in 1 .. Len(spike_anomalies) :
                         spike_anomalies[j].severity = level }
    IN  [status |-> "success",
         spike_anomalies |-> spike_anomalies,
         total_spikes |-> Len(spike_anomalies),
         critical_spikes |-> Cardinality(of("CRITICAL")),
         high_spikes |-> Cardinality(of("HIGH"))]

\* the call the API makes: window_days = 7, the default threshold
ApiSpikeCall ==
    /\ detOut.op = "detect_spike_anomalies"
    /\ detOut.status = "ok"
    /\ detOut.window_days = 7
    /\ detOut.threshold = threshold_default

\* C23: with window_days = 7 every record that detect_spike_anomalies
\* emits has severity HIGH, because |z| <= 6 / sqrt(7) < 3 over a window of
\* 7 days; CRITICAL is not reached, and the critical_spikes count of the
\* API's response is 0.
C23_WeekWindowNeverCritical ==
    (detOut.op = "detect_spike_anomalies" /\ detOut.window_days = 7) =>
        /\ \A j \in 1 .. Len(detOut.records) :
              /\ detOut.records[j].severity = "HIGH"
              /\ RatLe(detOut.records[j].z_score.sq, Rat(36, 7))
        /\ ApiSpikeCall =>
              /\ get_spike_anomalies(detOut.records).critical_spikes = 0
              /\ get_spike_anomalies(detOut.records).high_spikes
                    = Len(detOut.records)

\* the API's call flagged a day at the bound |z| = 6 / sqrt(7), and the
\* response counts it as a high spike
C23_Witness ==
    /\ ApiSpikeCall
    /\ \E j \in 1 .. Len(detOut.records) :
          /\ RatEq(detOut.records[j].z_score.sq, Rat(36, 7))
          /\ detOut.records[j].severity = "HIGH"
    /\ get_spike_anomalies(detOut.records).high_spikes > 0


\* the issues of the building a record is about
IssuesBehind(r) == Len(IssueTimes(r.building_id))

PassDetector(which) ==
    IF resp.op = "train_risk_probability_model"
    THEN PredictionAPI(disk)[which]
    ELSE api[which]

PassDetection(which) ==
    IF PassDetector(which).status = "ok"
    THEN detect_anomalies(PassDetector(which), AnomalyFeatures(campus))
    ELSE Raised("detect_anomalies", AnomalyFeatures(campus), "no detector")

\* both detectors give every building a probability
EnsembleAvailable ==
    /\ PassDetection("anomaly_if").status = "ok"
    /\ PassDetection("anomaly_svm").status = "ok"

\* the mean of the two detectors' probabilities of building b
EnsembleOf(b) ==
    EnsembleProbability(PassDetection("anomaly_if").probabilities[b],
                        PassDetection("anomaly_svm").probabilities[b])

\* C25: in a risk scoring pass the anomaly_component of every building's
\* risk score is the building's ensemble anomaly probability (the mean of
\* the two detectors' probabilities), whatever its value in [0,1], and
\* the training pipeline feeds a building the anomaly probability that the
\* API handlers feed it.
C25_AnomalyComponentIsEnsemble ==
    (resp.op \in RiskPasses /\ resp.status = "success") =>
        \A i \in 1 .. Len(resp.risk_scores) :
            LET r == resp.risk_scores[i]
                b == r.building_id
            IN  /\ EnsembleAvailable =>
                      r.risk.anomaly_component = ToScale(EnsembleOf(b))
                /\ resp.op = "train_risk_probability_model" =>
                      r.risk.anomaly_component =
                          HandlerBuildingRisks(PredictionAPI(disk), campus)[b]
                              .risk.anomaly_component


\* C26: the issue-frequency score fed to calculate_building_risk for a
\* building with given numbers of issues and of critical issues is the
\* same in every pipeline: the /api/ml/risk handler, the
\* /api/ml/risk/priority handler, the risk training pipeline, and the
\* formula the test script gives as the one of api_integration.py.
C26_FrequencyScoreSameInEveryPipeline ==
    (resp.op \in RiskPasses /\ resp.status = "success") =>
        \A i \in 1 .. Len(resp.risk_scores) :
            LET r == resp.risk_scores[i]
                b == campus[r.building_id]
            IN  /\ r.risk.recency_component
                      = HandlerFreqScore(b.num_issues, b.critical)
                /\ r.risk.recency_component = PipelineFreqScore(b.num_issues)
                /\ b.critical = 0 =>
                      r.risk.recency_component
                          = TestScriptFreqScore(b.num_issues)


(* ----------------------------------------------------------------------- *)
(* Claims about the health endpoint and the alerts                         *)
(* ----------------------------------------------------------------------- *)

\* C27: the health endpoint reports model_loaded = true only when the
\* failure-prediction classifier has been trained or successfully loaded
\* from disk; after a start in which load_model returned False it reports
\* model_loaded = false.
C27_ModelLoadedMeansLoaded ==
    resp.op = "health_check" =>
        /\ resp.model_loaded => api.model.ready
        /\ ~(disk.failure.model.present /\ disk.failure.scaler.present)
              => ~resp.model_loaded


(* ----------------------------------------------------------------------- *)
(* Claims about the time of the issues behind the features                 *)
(* ----------------------------------------------------------------------- *)

\* the issues created at or before the scoring time
CreatedByNow(issues) ==
    LET past(i) == i.days_ago >= 0 IN SelectSeq(issues, past)

\* C28: the engineered features of a building are computed only from
\* issues created at or before the scoring time: issues_last_{w}d and
\* avg_severity_last_{w}d include no future-dated issue, so the issues in
\* (now, now + target_window_days] that decide failure_in_window are not
\* counted in the building's features.
C28_FeaturesUseNoFutureIssue ==
    featOut.op \in {"engineer_building_features", "create_training_dataset"} =>
        \A w \in 1 .. Len(time_windows) :
            /\ featOut.features.issues_last[w]
                  = Len(RecentIssues(CreatedByNow(fdata.issues), time_windows[w]))
            /\ featOut.features.avg_severity_last[w]
                  = AvgSeverity(RecentIssues(CreatedByNow(fdata.issues),
                                             time_windows[w]))


(* ----------------------------------------------------------------------- *)
(* Claims about the order of the risk scores                               *)
(* ----------------------------------------------------------------------- *)

LevelRank(level) ==
    CASE level = "LOW" -> 0 [] level = "MEDIUM" -> 1
      [] level = "HIGH" -> 2 [] level = "CRITICAL" -> 3

\* no component of the second call is below that of the first
InputsNotLowered ==
    /\ rmCall.previous.failure_component <= rmCall.result.failure_component
    /\ rmCall.previous.anomaly_component <= rmCall.result.anomaly_component
    /\ rmCall.previous.recency_component <= rmCall.result.recency_component

\* C29: for a model with non-negative weights calculate_building_risk is
\* monotone: raising one of the failure, anomaly or frequency inputs with
\* the others fixed never lowers composite_score or risk_probability and
\* never moves risk_level down in the order LOW < MEDIUM < HIGH < CRITICAL.
C29_RiskIsMonotone ==
    (rmCall.calls = 2 /\ InputsNotLowered) =>
        /\ RatLe(RatNorm(rmCall.previous.composite_score),
                 RatNorm(rmCall.result.composite_score))
        /\ rmCall.previous.risk_probability <= rmCall.result.risk_probability
        /\ LevelRank(rmCall.previous.risk_level)
              <= LevelRank(rmCall.result.risk_level)

\* raising the failure input alone moved a building from LOW to HIGH or
\* CRITICAL
C29_Witness ==
    /\ rmCall.calls = 2
    /\ rmCall.previous.failure_component < rmCall.result.failure_component
    /\ rmCall.previous.anomaly_component = rmCall.result.anomaly_component
    /\ rmCall.previous.recency_component = rmCall.result.recency_component
    /\ rmCall.previous.risk_level = "LOW"
    /\ LevelRank(rmCall.result.risk_level) >= 2


\* the predictions of the response get_predictions gives now
PredictionsNow == get_predictions(api, campus)

\* C30: whenever get_predictions succeeds, get_alerts returns status
\* 'success' with exactly one alert for each prediction whose risk level is
\* CRITICAL or HIGH and none for MEDIUM or LOW, in ascending priority (all
\* CRITICAL alerts before all HIGH alerts), and get_risk_summary returns
\* status 'success' with every prediction grouped under its risk level.
C30_AlertsAndSummaryFollowPredictions ==
    (resp.op \in {"get_alerts", "get_risk_summary"}
        /\ PredictionsNow.status = "success") =>
        LET preds == PredictionsNow.predictions
            urgent == { i \in 1 .. Len(preds) :
                          preds[i].riskLevel \in {"CRITICAL", "HIGH"} }
        IN  /\ resp.status = "success"
            /\ resp.op = "get_alerts" =>
                  /\ Len(resp.alerts) = Cardinality(urgent)
                  /\ \A i \in urgent :
                        \E k \in 1 .. Len(resp.alerts) :
                            /\ resp.alerts[k].buildingId = preds[i].buildingId
                            /\ resp.alerts[k].riskLevel = preds[i].riskLevel
                  /\ \A k, l \in 1 .. Len(resp.alerts) :
                        (k < l) =>
                            resp.alerts[k].priority <= resp.alerts[l].priority
            /\ resp.op = "get_risk_summary" =>
                  \A i \in 1 .. Len(preds) :
                      \E k \in 1 .. Len(resp.buildings[preds[i].riskLevel]) :
                          resp.buildings[preds[i].riskLevel][k] = preds[i]

====
